---- MODULE Spec2Model ----
(***************************************************************************)
(* A model of apricot: the Bencode scanner, decoder and encoder, and the   *)
(* metainfo (.torrent) document model.                                     *)
(*                                                                         *)
(* Go strings are sequences of bytes (naturals 0..255); the scanner index  *)
(* is 0-based as in the source, so Contents[i] of the source is            *)
(* Contents[i + 1] here.                                                   *)
(*                                                                         *)
(* A decoded or encodable Go value (the source's `any`) is a record        *)
(*   [t |-> "int",  v |-> an integer]                                      *)
(*   [t |-> "str",  v |-> a sequence of bytes]                             *)
(*   [t |-> "list", v |-> a sequence of values]                            *)
(*   [t |-> "dict", v |-> a sequence of <<key bytes, value>> pairs]        *)
(* A Go map is a sequence of pairs with distinct keys; the order of the    *)
(* sequence is the order in which the map happens to be iterated           *)
(* (reflect's MapKeys), which Go leaves unspecified.                       *)
(***************************************************************************)
EXTENDS Integers, Sequences, FiniteSets, TLC

VARIABLES
    contents,   \* the string handed to DecodeBencode
    decoded,    \* what DecodeBencode returned for it, or Unset
    goValue,    \* the Go value handed to EncodeBencode
    encoded,    \* what EncodeBencode returned for it, or Unset
    redecoded,  \* what DecodeBencode returned for `encoded`, or Unset
    document,   \* the metainfo document a .torrent file was written from
    metainfo,   \* the decoded token handed to NewTorrent, or Unset
    torrent,    \* what NewTorrent returned for it, or Unset
    pieceHashes, \* what Info.PieceHashes returned, or Unset
    infoHashes, \* what the calls of Info.Hash returned so far
    exchange,   \* the announce URL's scheme and the tracker's HTTP answer
    response,   \* what GetPeers returned for it, or Unset
    format,     \* the compact peer string handed to compactToPeerList
    peerList,   \* what compactToPeerList returned for it, or Unset
    conn,       \* the TCP connection to the peer: what the peer sends, how
                \* much of it was read, and what was written to the peer
    client,     \* what NewTCPClient or TCPClient.Handshake returned, or Unset
    received,   \* what the calls of ReadMessage returned so far
    outgoing,   \* the messages handed to SendMessage so far
    session,    \* the info hash, the tracker peer, the local peer ID and the
                \* piece count a peer connection is made with
    remote,     \* the same connection at the peer's end, read by the peer's
                \* own TCPClient
    bitfield,   \* the BitField that SetPiece and HasPiece are called on
    probes,     \* what the calls of HasPiece returned so far
    scan,       \* the Scanner of a DecodeBencode call in progress
    stack,      \* its loops in progress, the innermost last
    steps       \* how many steps the call has taken

codecVars == <<contents, decoded, goValue, encoded, redecoded>>

torrentVars == <<document, metainfo, torrent, pieceHashes, infoHashes>>

trackerVars == <<exchange, response, format, peerList>>

wireVars == <<conn, client, received, outgoing, session, remote>>

bitVars == <<bitfield, probes>>

scanVars == <<scan, stack, steps>>

peerVars == <<trackerVars, wireVars, bitVars>>

vars == <<codecVars, scanVars, torrentVars, peerVars>>

Unset == [unset |-> TRUE]

\* no tracker exchange and no peer connection has been set up
TrackerIdle == exchange = Unset /\ response = Unset /\ format = <<>> /\ peerList = Unset

WireIdle ==
    /\ conn = Unset
    /\ client = Unset
    /\ received = <<>>
    /\ outgoing = <<>>
    /\ session = Unset
    /\ remote = Unset

BitIdle == bitfield = Unset /\ probes = <<>>

ScanIdle == scan = Unset /\ stack = <<>> /\ steps = 0

PeerIdle == TrackerIdle /\ WireIdle /\ BitIdle

(***************************************************************************)
(* Bytes the source names as character literals.                           *)
(***************************************************************************)
ChTab == 9
ChLF == 10
ChVT == 11
ChFF == 12
ChCR == 13
ChSpace == 32
ChNEL == 133
ChNBSP == 160
ChPlus == 43
ChMinus == 45
ChZero == 48
ChNine == 57
ChColon == 58
ChD == 100
ChE == 101
ChI == 105
ChL == 108

\* unicode.IsDigit on a rune below 256
IsDigit(c) == ChZero <= c /\ c <= ChNine

\* unicode.IsSpace on a rune below 256
IsSpace(c) == c \in {ChTab, ChLF, ChVT, ChFF, ChCR, ChSpace, ChNEL, ChNBSP}

(***************************************************************************)
(* Scanner                                                                 *)
(***************************************************************************)
Scanner(c, i) == [Contents |-> c, CurrentIndex |-> i]

Ended(s) == s.CurrentIndex >= Len(s.Contents)

\* Peek: [str, err]; err is "EOF" or "nil"
Peek(s, n) ==
    IF s.CurrentIndex + n - 1 >= Len(s.Contents)
    THEN [str |-> <<>>, err |-> "EOF"]
    ELSE [str |-> SubSeq(s.Contents, s.CurrentIndex + 1, s.CurrentIndex + n),
          err |-> "nil"]

\* Advance: the scanner after the call (unmoved when it had ended)
Advance(s, n) ==
    IF Ended(s) THEN s ELSE Scanner(s.Contents, s.CurrentIndex + n)

\* Consume: [str, err, scanner]
Consume(s, n) ==
    LET p == Peek(s, n) IN
    IF p.err # "nil" THEN [str |-> <<>>, err |-> p.err, scanner |-> s]
    ELSE IF ~Ended(s) THEN [str |-> p.str, err |-> "nil", scanner |-> Advance(s, n)]
    ELSE [str |-> <<>>, err |-> "nil", scanner |-> s]

RECURSIVE AdvanceWhitespace(_)
AdvanceWhitespace(s) ==
    LET p == Peek(s, 1) IN
    IF p.err = "EOF" THEN s
    ELSE IF ~IsSpace(p.str[1]) THEN s
    ELSE AdvanceWhitespace(Advance(s, 1))

RECURSIVE ConsumeUntilLoop(_, _, _)
ConsumeUntilLoop(s, delimiter, accumulated) ==
    LET p == Peek(s, 1) IN
    IF p.err = "EOF" THEN [str |-> accumulated, found |-> FALSE, scanner |-> s]
    ELSE IF p.str[1] = delimiter
         THEN [str |-> accumulated, found |-> TRUE, scanner |-> s]
    ELSE ConsumeUntilLoop(Advance(s, 1), delimiter, accumulated \o p.str)

\* ConsumeUntil: [str, found, scanner]
ConsumeUntil(s, delimiter) ==
    IF Ended(s) THEN [str |-> <<>>, found |-> FALSE, scanner |-> s]
    ELSE ConsumeUntilLoop(s, delimiter, <<>>)

(***************************************************************************)
(* strconv.Atoi, for inputs short of the int range: an optional sign and   *)
(* then one or more decimal digits.                                        *)
(***************************************************************************)
RECURSIVE DigitsValue(_, _)
DigitsValue(ds, acc) ==
    IF ds = <<>> THEN acc
    ELSE DigitsValue(Tail(ds), acc * 10 + (Head(ds) - ChZero))

\* Atoi: [n, err]
Atoi(str) ==
    LET signed == str # <<>> /\ Head(str) \in {ChPlus, ChMinus}
        digits == IF signed THEN Tail(str) ELSE str
    IN  IF digits = <<>> \/ \E k \in 1..Len(digits) : ~IsDigit(digits[k])
        THEN [n |-> 0, err |-> "error"]
        ELSE [n |-> IF signed /\ Head(str) = ChMinus
                    THEN 0 - DigitsValue(digits, 0)
                    ELSE DigitsValue(digits, 0),
              err |-> "nil"]

(***************************************************************************)
(* Values                                                                  *)
(***************************************************************************)
Nil == [t |-> "nil", v |-> 0]
IntTok(n) == [t |-> "int", v |-> n]
StrTok(b) == [t |-> "str", v |-> b]
ListTok(items) == [t |-> "list", v |-> items]
DictTok(pairs) == [t |-> "dict", v |-> pairs]

\* m[key] = value on a Go map
MapSet(pairs, key, value) ==
    IF \E k \in 1..Len(pairs) : pairs[k][1] = key
    THEN [k \in 1..Len(pairs) |->
            IF pairs[k][1] = key THEN <<key, value>> ELSE pairs[k]]
    ELSE Append(pairs, <<key, value>>)

(***************************************************************************)
(* Decoder.  Every parse returns [val, err, scanner]; err is "nil", an     *)
(* error returned to the caller ("EOF", "error"), or "panic" when the Go   *)
(* runtime aborts the call.                                                *)
(***************************************************************************)
Result(val, err, s) == [val |-> val, err |-> err, scanner |-> s]

ParseBencodeString(scanner) ==
    LET start == scanner.CurrentIndex
        cu == ConsumeUntil(scanner, ChColon)
    IN  IF ~cu.found
        THEN Result(Nil, "error", Scanner(scanner.Contents, start))
        ELSE LET strLen == Atoi(cu.str) IN
             IF strLen.err # "nil" THEN Result(Nil, "error", cu.scanner)
             ELSE LET c == Consume(Advance(cu.scanner, 1), strLen.n) IN
                  IF c.err # "nil" THEN Result(Nil, c.err, c.scanner)
                  ELSE Result(StrTok(c.str), "nil", c.scanner)

ParseBencodeInteger(scanner) ==
    LET cu == ConsumeUntil(Advance(scanner, 1), ChE) IN
    IF ~cu.found THEN Result(Nil, "error", cu.scanner)
    ELSE LET number == Atoi(cu.str) IN
         IF number.err # "nil" THEN Result(Nil, "error", cu.scanner)
         ELSE Result(IntTok(number.n), "nil", Advance(cu.scanner, 1))

RECURSIVE ParseBencodeToken(_)
RECURSIVE ParseListLoop(_, _)
RECURSIVE ParseDictionaryLoop(_, _)

\* the loop of ParseBencodeList, entered with the tokens read so far
ParseListLoop(scanner, tokens) ==
    IF Ended(scanner) THEN Result(ListTok(tokens), "nil", scanner)
    ELSE LET s1 == AdvanceWhitespace(scanner)
             p == Peek(s1, 1)
         IN  IF p.err = "EOF" THEN Result(Nil, "EOF", s1)
             ELSE IF p.str[1] = ChE
                  THEN Result(ListTok(tokens), "nil", Advance(s1, 1))
             ELSE LET token == ParseBencodeToken(s1) IN
                  IF token.err # "nil" THEN Result(Nil, token.err, token.scanner)
                  ELSE ParseListLoop(token.scanner, Append(tokens, token.val))

ParseBencodeList(scanner) == ParseListLoop(Advance(scanner, 1), <<>>)

\* the loop of ParseBencodeDictionary, entered with the pairs read so far
ParseDictionaryLoop(scanner, dictionary) ==
    IF Ended(scanner) THEN Result(DictTok(dictionary), "nil", scanner)
    ELSE LET s1 == AdvanceWhitespace(scanner)
             p == Peek(s1, 1)
         IN  IF p.err # "nil" THEN Result(Nil, p.err, s1)
             ELSE IF p.str[1] = ChE
                  THEN Result(DictTok(dictionary), "nil", Advance(s1, 1))
             ELSE LET key == ParseBencodeToken(s1) IN
                  IF key.err # "nil" THEN Result(Nil, key.err, key.scanner)
                  ELSE LET value == ParseBencodeToken(AdvanceWhitespace(key.scanner)) IN
                       IF value.err # "nil"
                       THEN Result(Nil, value.err, value.scanner)
                       ELSE IF key.val.t # "str"
                            THEN Result(Nil, "panic", value.scanner)
                       ELSE ParseDictionaryLoop(value.scanner,
                                MapSet(dictionary, key.val.v, value.val))

ParseBencodeDictionary(scanner) == ParseDictionaryLoop(Advance(scanner, 1), <<>>)

ParseBencodeToken(scanner) ==
    LET p == Peek(scanner, 1) IN
    IF p.err = "EOF" THEN Result(Nil, "EOF", scanner)
    ELSE IF IsDigit(p.str[1]) THEN ParseBencodeString(scanner)
    ELSE IF p.str[1] = ChI THEN ParseBencodeInteger(scanner)
    ELSE IF p.str[1] = ChL THEN ParseBencodeList(scanner)
    ELSE IF p.str[1] = ChD THEN ParseBencodeDictionary(scanner)
    ELSE Result(Nil, "error", scanner)

\* the loop of DecodeBencode: [tokens, err, scanner]
RECURSIVE DecodeLoop(_, _)
DecodeLoop(scanner, tokens) ==
    IF Ended(scanner) THEN [tokens |-> tokens, err |-> "nil", scanner |-> scanner]
    ELSE LET token == ParseBencodeToken(AdvanceWhitespace(scanner)) IN
         IF token.err # "nil"
         THEN [tokens |-> <<>>, err |-> token.err, scanner |-> token.scanner]
         ELSE DecodeLoop(token.scanner, Append(tokens, token.val))

\* DecodeBencode with an `if` for its `for`: it stops after the first token
DecodeBencodeFirstOnly(c) ==
    LET scanner == Scanner(c, 0) IN
    IF Ended(scanner) THEN [tokens |-> <<>>, err |-> "nil", scanner |-> scanner]
    ELSE LET token == ParseBencodeToken(AdvanceWhitespace(scanner)) IN
         IF token.err # "nil"
         THEN [tokens |-> <<>>, err |-> token.err, scanner |-> token.scanner]
         ELSE [tokens |-> <<token.val>>, err |-> "nil", scanner |-> token.scanner]

DecodeBencode(c) == DecodeLoop(Scanner(c, 0), <<>>)

(***************************************************************************)
(* Encoder.  EncodeBencode returns [str, err].                             *)
(***************************************************************************)
RECURSIVE NatDigits(_)
NatDigits(n) ==
    IF n < 10 THEN <<ChZero + n>>
    ELSE Append(NatDigits(n \div 10), ChZero + (n % 10))

\* fmt's %d
FormatInt(n) == IF n < 0 THEN <<ChMinus>> \o NatDigits(0 - n) ELSE NatDigits(n)

\* a < b on Go strings: byte-wise lexicographic order
RECURSIVE StrLess(_, _)
StrLess(a, b) ==
    IF b = <<>> THEN FALSE
    ELSE IF a = <<>> THEN TRUE
    ELSE IF Head(a) # Head(b) THEN Head(a) < Head(b)
    ELSE StrLess(Tail(a), Tail(b))

RECURSIVE InsertSorted(_, _)
InsertSorted(sorted, key) ==
    IF sorted = <<>> THEN <<key>>
    ELSE IF StrLess(key, Head(sorted)) THEN <<key>> \o sorted
    ELSE <<Head(sorted)>> \o InsertSorted(Tail(sorted), key)

RECURSIVE SortLoop(_, _)
SortLoop(keys, sorted) ==
    IF keys = <<>> THEN sorted
    ELSE SortLoop(Tail(keys), InsertSorted(sorted, Head(keys)))

\* slices.Sort on the keys MapKeys returned, left as they came
SlicesSortSkipped(keys) == keys

\* slices.Sort
SlicesSort(keys) == SortLoop(keys, <<>>)

\* token.MapKeys(), in the order the map happens to be iterated
MapKeys(pairs) == [k \in 1..Len(pairs) |-> pairs[k][1]]

\* token.MapIndex(key)
MapIndex(pairs, key) ==
    pairs[CHOOSE k \in 1..Len(pairs) : pairs[k][1] = key][2]

Encoded(str, err) == [str |-> str, err |-> err]

RECURSIVE EncodeBencode(_)
RECURSIVE EncodeListLoop(_, _, _)
RECURSIVE EncodeMapLoop(_, _, _)

\* the loop of the Slice case over items idx.., with the text so far
EncodeListLoop(items, idx, bencoded) ==
    IF idx > Len(items) THEN Encoded(<<ChL>> \o bencoded \o <<ChE>>, "nil")
    ELSE LET itemCoded == EncodeBencode(items[idx]) IN
         IF itemCoded.err # "nil" THEN Encoded(<<>>, "error")
         ELSE EncodeListLoop(items, idx + 1, bencoded \o itemCoded.str)

\* the loop of the Map case over the ordered keys, with the text so far
EncodeMapLoop(pairs, orderedKeys, bencoded) ==
    IF orderedKeys = <<>> THEN Encoded(<<ChD>> \o bencoded \o <<ChE>>, "nil")
    ELSE LET keyCoded == EncodeBencode(StrTok(Head(orderedKeys)))
             valueCoded == EncodeBencode(MapIndex(pairs, Head(orderedKeys)))
         IN  IF keyCoded.err # "nil" \/ valueCoded.err # "nil"
             THEN Encoded(<<>>, "error")
             ELSE EncodeMapLoop(pairs, Tail(orderedKeys),
                                bencoded \o keyCoded.str \o valueCoded.str)

\* EncodeBencode printing a signed integer as the Uint case does: the sign is lost
EncodeBencodeUnsigned(token) ==
    IF token.t = "str"
    THEN Encoded(FormatInt(Len(token.v)) \o <<ChColon>> \o token.v, "nil")
    ELSE IF token.t = "int"
    THEN Encoded(<<ChI>> \o NatDigits(IF token.v < 0 THEN 0 - token.v ELSE token.v)
                    \o <<ChE>>, "nil")
    ELSE IF token.t = "list" THEN EncodeListLoop(token.v, 1, <<>>)
    ELSE IF token.t = "dict"
    THEN EncodeMapLoop(token.v, SlicesSort(MapKeys(token.v)), <<>>)
    ELSE Encoded(<<>>, "error")

EncodeBencode(token) ==
    IF token.t = "str"
    THEN Encoded(FormatInt(Len(token.v)) \o <<ChColon>> \o token.v, "nil")
    ELSE IF token.t = "int"
    THEN Encoded(<<ChI>> \o FormatInt(token.v) \o <<ChE>>, "nil")
    ELSE IF token.t = "list" THEN EncodeListLoop(token.v, 1, <<>>)
    ELSE IF token.t = "dict"
    THEN EncodeMapLoop(token.v, SlicesSort(MapKeys(token.v)), <<>>)
    ELSE Encoded(<<>>, "error")

\* reflect.DeepEqual on decoded values, a nil slice taken as an empty one:
\* maps are equal when they hold the same keys with equal values
RECURSIVE DeepEqual(_, _)
DeepEqual(a, b) ==
    IF a.t # b.t THEN FALSE
    ELSE IF a.t = "list"
    THEN /\ Len(a.v) = Len(b.v)
         /\ \A k \in 1..Len(a.v) : DeepEqual(a.v[k], b.v[k])
    ELSE IF a.t = "dict"
    THEN /\ Len(a.v) = Len(b.v)
         /\ \A k \in 1..Len(a.v) : \E j \in 1..Len(b.v) :
                a.v[k][1] = b.v[j][1] /\ DeepEqual(a.v[k][2], b.v[j][2])
    ELSE a.v = b.v

(***************************************************************************)
(* Metainfo model                                                          *)
(***************************************************************************)
KeyAnnounce == <<97, 110, 110, 111, 117, 110, 99, 101>>
KeyInfo == <<105, 110, 102, 111>>
KeyName == <<110, 97, 109, 101>>
KeyPieceLength == <<112, 105, 101, 99, 101, 32, 108, 101, 110, 103, 116, 104>>
KeyPieces == <<112, 105, 101, 99, 101, 115>>
KeyLength == <<108, 101, 110, 103, 116, 104>>
KeyFiles == <<102, 105, 108, 101, 115>>
KeyPath == <<112, 97, 116, 104>>

\* the size of a SHA-1 digest
HashSize == 20

\* m[key] on a map[string]any: Nil where the key is absent
Lookup(pairs, key) ==
    IF \E k \in 1..Len(pairs) : pairs[k][1] = key
    THEN MapIndex(pairs, key)
    ELSE Nil

InfoFile(length, path) == [Length |-> length, Path |-> path]

Info(name, pieceLength, pieces, length, files) ==
    [Name |-> name, PieceLength |-> pieceLength, Pieces |-> pieces,
     Length |-> length, Files |-> files]

NoInfo == Info(<<>>, 0, <<>>, 0, <<>>)

\* the loop of PieceHashes from byte idx on, with the hashes so far
RECURSIVE PieceHashesLoop(_, _, _)
PieceHashesLoop(pieces, idx, hashes) ==
    IF idx <= Len(pieces) - HashSize
    THEN PieceHashesLoop(pieces, idx + HashSize,
                         Append(hashes, SubSeq(pieces, idx + 1, idx + HashSize)))
    ELSE hashes

\* Info.PieceHashes: [hashes, err]; the method returns no error
PieceHashes(i) == [hashes |-> PieceHashesLoop(i.Pieces, 0, <<>>), err |-> "nil"]

\* Info.Bencodable
Bencodable(i) ==
    LET contentsMap == << <<KeyName, StrTok(i.Name)>>,
                          <<KeyPieceLength, IntTok(i.PieceLength)>>,
                          <<KeyPieces, StrTok(i.Pieces)>> >>
        items == [k \in 1..Len(i.Files) |->
                    DictTok(<< <<KeyLength, IntTok(i.Files[k].Length)>>,
                               <<KeyPath,
                                 ListTok([j \in 1..Len(i.Files[k].Path) |->
                                            StrTok(i.Files[k].Path[j])])>> >>)]
    IN  IF Len(i.Files) > 0
        THEN DictTok(MapSet(contentsMap, KeyFiles, ListTok(items)))
        ELSE DictTok(MapSet(contentsMap, KeyLength, IntTok(i.Length)))

\* crypto/sha1 is not computed bit by bit: a digest is a term over the
\* message, so that two digests are equal exactly when the messages are
Sha1Sum(message) == [sha1 |-> message]

\* Info.Hash, given the map Bencodable built as it is iterated: [sum, err]
HashOf(bencodable) ==
    LET bencoded == EncodeBencode(bencodable) IN
    IF bencoded.err # "nil" THEN [sum |-> Sha1Sum(<<>>), err |-> "error"]
    ELSE [sum |-> Sha1Sum(bencoded.str), err |-> "nil"]

\* the loop of newInfoFileSlice from item nth on: [files, err]
RECURSIVE InfoFileSliceLoop(_, _, _)
InfoFileSliceLoop(items, nth, files) ==
    IF nth > Len(items) THEN [files |-> files, err |-> "nil"]
    ELSE LET item == items[nth] IN
         IF item.t # "dict" THEN [files |-> <<>>, err |-> "error"]
         ELSE LET rawPath == Lookup(item.v, KeyPath)
                  length == Lookup(item.v, KeyLength)
              IN  IF rawPath.t # "list" THEN [files |-> <<>>, err |-> "error"]
                  ELSE IF \E idx \in 1..Len(rawPath.v) : rawPath.v[idx].t # "str"
                       THEN [files |-> <<>>, err |-> "panic"]
                  ELSE IF length.t # "int" THEN [files |-> <<>>, err |-> "panic"]
                  ELSE InfoFileSliceLoop(items, nth + 1,
                          Append(files,
                                 InfoFile(length.v,
                                          [idx \in 1..Len(rawPath.v) |->
                                              rawPath.v[idx].v])))

newInfoFileSlice(items) == InfoFileSliceLoop(items, 1, <<>>)

TorrentResult(info, announceURL, err) ==
    [Info |-> info, AnnounceURL |-> announceURL, err |-> err]

\* NewTorrent on the pairs of the contents map: [Info, AnnounceURL, err];
\* err is "nil", "error" (an error is returned) or "panic"
NewTorrent(contentsMap) ==
    LET info == Lookup(contentsMap, KeyInfo) IN
    IF info.t # "dict" THEN TorrentResult(NoInfo, <<>>, "panic")
    ELSE LET items == Lookup(info.v, KeyFiles)
             files == IF items.t = "list" THEN newInfoFileSlice(items.v)
                      ELSE [files |-> <<>>, err |-> "nil"]
             rawLength == Lookup(info.v, KeyLength)
             length == IF rawLength.t = "int" THEN rawLength.v ELSE 0
             name == Lookup(info.v, KeyName)
             pieceLength == Lookup(info.v, KeyPieceLength)
             pieces == Lookup(info.v, KeyPieces)
             announce == Lookup(contentsMap, KeyAnnounce)
         IN  IF files.err # "nil" THEN TorrentResult(NoInfo, <<>>, files.err)
             ELSE IF name.t # "str" \/ pieceLength.t # "int" \/ pieces.t # "str"
                     \/ announce.t # "str"
                  THEN TorrentResult(NoInfo, <<>>, "panic")
             ELSE TorrentResult(Info(name.v, pieceLength.v, pieces.v, length, files.files),
                                announce.v, "nil")

(***************************************************************************)
(* Decoding arbitrary input: every string over Alphabet of at most MaxLen  *)
(* bytes.                                                                  *)
(***************************************************************************)
MaxLen == 5

Alphabet == {ChZero, ChZero + 1, ChMinus, ChColon, ChI, ChL, ChD, ChE, ChSpace}

StringsUpTo(n) == UNION {[1..k -> Alphabet] : k \in 0..n}

InitDecode ==
    /\ contents \in StringsUpTo(MaxLen)
    /\ decoded = Unset
    /\ goValue = Nil
    /\ encoded = Unset
    /\ redecoded = Unset
    /\ document = Unset
    /\ metainfo = Unset
    /\ torrent = Unset
    /\ pieceHashes = Unset
    /\ infoHashes = <<>>
    /\ PeerIdle
    /\ ScanIdle

Decode ==
    /\ decoded = Unset
    /\ decoded' = DecodeBencode(contents)
    /\ UNCHANGED <<contents, goValue, encoded, redecoded>>
    /\ UNCHANGED torrentVars
    /\ UNCHANGED peerVars
    /\ UNCHANGED scanVars

NextDecode == Decode

SpecDecode == InitDecode /\ [][NextDecode]_vars

(***************************************************************************)
(* Encoding and decoding back.  The Go value is built bottom-up from       *)
(* Leaves by wrapping it in a list or a map and by adding leaves to it,    *)
(* up to MaxNodes nodes (an integer, a string, a list or a map each count  *)
(* one).                                                                   *)
(***************************************************************************)
MaxNodes == 4

LongString == [k \in 1..10 |-> IF k % 2 = 1 THEN ChE ELSE ChColon]

Atoms == {IntTok(0), IntTok(0 - 12), StrTok(<<>>), StrTok(LongString)}

Leaves == Atoms \union {ListTok(<<>>), DictTok(<<>>)}

Keys == {<<ChE>>, <<ChD, ChZero>>, <<ChE, ChE>>}

RECURSIVE NodeCount(_)
RECURSIVE NodeCountOfItems(_)
NodeCountOfItems(items) ==
    IF items = <<>> THEN 0
    ELSE NodeCount(Head(items)) + NodeCountOfItems(Tail(items))

NodeCount(v) ==
    IF v.t = "list" THEN 1 + NodeCountOfItems(v.v)
    ELSE IF v.t = "dict"
    THEN 1 + NodeCountOfItems([k \in 1..Len(v.v) |-> v.v[k][2]])
    ELSE 1

\* every order in which the pairs of a map can be iterated
RECURSIVE Orderings(_)
Orderings(pairs) ==
    IF pairs = <<>> THEN {<<>>}
    ELSE UNION {{<<pairs[k]>> \o rest :
                    rest \in Orderings(SubSeq(pairs, 1, k - 1)
                                            \o SubSeq(pairs, k + 1, Len(pairs)))} :
                    k \in 1..Len(pairs)}

\* the same Go value with every map in it iterated in any order
RECURSIVE Iterations(_)
RECURSIVE IterationsOfItems(_)
RECURSIVE IterationsOfPairs(_)

IterationsOfItems(items) ==
    IF items = <<>> THEN {<<>>}
    ELSE {<<h>> \o r : h \in Iterations(Head(items)),
                       r \in IterationsOfItems(Tail(items))}

IterationsOfPairs(pairs) ==
    IF pairs = <<>> THEN {<<>>}
    ELSE {<< <<Head(pairs)[1], h>> >> \o r :
                h \in Iterations(Head(pairs)[2]),
                r \in IterationsOfPairs(Tail(pairs))}

Iterations(v) ==
    IF v.t = "list" THEN {ListTok(items) : items \in IterationsOfItems(v.v)}
    ELSE IF v.t = "dict"
    THEN {DictTok(q) : q \in UNION {Orderings(p) : p \in IterationsOfPairs(v.v)}}
    ELSE {v}

InitCodec ==
    /\ contents = <<>>
    /\ decoded = Unset
    /\ goValue \in Leaves
    /\ encoded = Unset
    /\ redecoded = Unset
    /\ document = Unset
    /\ metainfo = Unset
    /\ torrent = Unset
    /\ pieceHashes = Unset
    /\ infoHashes = <<>>
    /\ PeerIdle
    /\ ScanIdle

Building ==
    /\ goValue # Nil
    /\ encoded = Unset
    /\ NodeCount(goValue) < MaxNodes
    /\ UNCHANGED <<contents, decoded, encoded, redecoded>>
    /\ UNCHANGED torrentVars

\* []any{goValue}
WrapList ==
    /\ Building
    /\ goValue' = ListTok(<<goValue>>)
    /\ UNCHANGED peerVars
    /\ UNCHANGED scanVars

\* map[string]any{key: goValue}
WrapMap ==
    /\ Building
    /\ \E key \in Keys : goValue' = DictTok(<< <<key, goValue>> >>)
    /\ UNCHANGED peerVars
    /\ UNCHANGED scanVars

\* a leaf put before or after the items of the list
AddItem ==
    /\ Building
    /\ goValue.t = "list"
    /\ \E leaf \in Leaves, front \in BOOLEAN :
            goValue' = ListTok(IF front THEN <<leaf>> \o goValue.v
                               ELSE Append(goValue.v, leaf))
    /\ UNCHANGED peerVars
    /\ UNCHANGED scanVars

\* goValue[key] = leaf
SetKey ==
    /\ Building
    /\ goValue.t = "dict"
    /\ \E key \in Keys, leaf \in Leaves :
            goValue' = DictTok(MapSet(goValue.v, key, leaf))
    /\ UNCHANGED peerVars
    /\ UNCHANGED scanVars

\* EncodeBencode(goValue), each map of goValue iterated in some order
Encode ==
    /\ encoded = Unset
    /\ goValue # Nil
    /\ \E iterated \in Iterations(goValue) : encoded' = EncodeBencode(iterated)
    /\ UNCHANGED <<contents, decoded, goValue, redecoded>>
    /\ UNCHANGED torrentVars
    /\ UNCHANGED peerVars
    /\ UNCHANGED scanVars

\* DecodeBencode of what EncodeBencode returned
Redecode ==
    /\ encoded # Unset
    /\ encoded.err = "nil"
    /\ redecoded = Unset
    /\ redecoded' = DecodeBencode(encoded.str)
    /\ UNCHANGED <<contents, decoded, goValue, encoded>>
    /\ UNCHANGED torrentVars
    /\ UNCHANGED peerVars
    /\ UNCHANGED scanVars

NextCodec == WrapList \/ WrapMap \/ AddItem \/ SetKey \/ Encode \/ Redecode

SpecCodec == InitCodec /\ [][NextCodec]_vars

(***************************************************************************)
(* Building a Torrent from a decoded metainfo map.  Every key of the map   *)
(* and of its info map is absent, of the right shape, or of a wrong one.   *)
(***************************************************************************)
MaxPieces == 2

\* n bytes, the k-th being k
Bytes(n) == [k \in 1..n |-> k]

\* the pairs whose value is not Nil: Nil marks a key that is absent
Present(pairs) == SelectSeq(pairs, LAMBDA pair : pair[2] # Nil)

FileItem(length, path) == DictTok(Present(<< <<KeyLength, length>>, <<KeyPath, path>> >>))

PathA == ListTok(<<StrTok(<<ChD>>), StrTok(<<ChE>>)>>)
PathB == ListTok(<<StrTok(<<ChL>>)>>)

FilesChoices ==
    {Nil, IntTok(1), ListTok(<<>>),
     ListTok(<<FileItem(IntTok(3), PathA)>>),
     ListTok(<<FileItem(IntTok(3), PathA), FileItem(IntTok(4), PathB)>>),
     ListTok(<<IntTok(1)>>),
     ListTok(<<FileItem(IntTok(3), Nil)>>),
     ListTok(<<FileItem(IntTok(3), StrTok(<<ChD>>))>>),
     ListTok(<<FileItem(Nil, PathA)>>),
     ListTok(<<FileItem(IntTok(3), ListTok(<<IntTok(1)>>))>>)}

PiecesChoices ==
    {Nil, IntTok(1)} \union {StrTok(Bytes(n)) : n \in 0..(HashSize * MaxPieces + 1)}

InfoChoices ==
    {Nil, StrTok(<<ChD>>)} \union
    {DictTok(Present(<< <<KeyName, name>>, <<KeyPieceLength, pieceLength>>,
                        <<KeyPieces, pieces>>, <<KeyLength, length>>,
                        <<KeyFiles, files>> >>)) :
        name \in {Nil, StrTok(<<ChD>>), IntTok(1)},
        pieceLength \in {Nil, IntTok(16), StrTok(<<ChD>>)},
        pieces \in PiecesChoices,
        length \in {Nil, IntTok(7), StrTok(<<ChD>>)},
        files \in FilesChoices}

MetainfoChoices ==
    {Present(<< <<KeyAnnounce, announce>>, <<KeyInfo, info>> >>) :
        announce \in {Nil, StrTok(<<ChL>>), IntTok(1)},
        info \in InfoChoices}

InitTorrent ==
    /\ contents = <<>>
    /\ decoded = Unset
    /\ goValue = Nil
    /\ encoded = Unset
    /\ redecoded = Unset
    /\ document = Unset
    /\ metainfo \in {DictTok(pairs) : pairs \in MetainfoChoices}
    /\ torrent = Unset
    /\ pieceHashes = Unset
    /\ infoHashes = <<>>
    /\ PeerIdle
    /\ ScanIdle

\* NewTorrent(metainfo)
NewTorrentCall ==
    /\ metainfo # Unset
    /\ torrent = Unset
    /\ torrent' = NewTorrent(metainfo.v)
    /\ UNCHANGED <<document, metainfo, pieceHashes, infoHashes>>
    /\ UNCHANGED codecVars
    /\ UNCHANGED peerVars
    /\ UNCHANGED scanVars

\* torrent.Info.PieceHashes()
PieceHashesCall ==
    /\ torrent # Unset
    /\ torrent.err = "nil"
    /\ pieceHashes = Unset
    /\ pieceHashes' = PieceHashes(torrent.Info)
    /\ UNCHANGED <<document, metainfo, torrent, infoHashes>>
    /\ UNCHANGED codecVars
    /\ UNCHANGED peerVars
    /\ UNCHANGED scanVars

NextTorrent == NewTorrentCall \/ PieceHashesCall

SpecTorrent == InitTorrent /\ [][NextTorrent]_vars

(***************************************************************************)
(* The info hash of a .torrent file: the file holds a metainfo document    *)
(* with the keys of every dictionary in any order.                         *)
(***************************************************************************)
\* the Bencode text of v with the pairs of every dictionary in the order given
RECURSIVE FileText(_)
RECURSIVE FileTextOfItems(_)
FileTextOfItems(items) ==
    IF items = <<>> THEN <<>>
    ELSE FileText(Head(items)) \o FileTextOfItems(Tail(items))

FileText(v) ==
    IF v.t = "str" THEN FormatInt(Len(v.v)) \o <<ChColon>> \o v.v
    ELSE IF v.t = "int" THEN <<ChI>> \o FormatInt(v.v) \o <<ChE>>
    ELSE IF v.t = "list" THEN <<ChL>> \o FileTextOfItems(v.v) \o <<ChE>>
    ELSE <<ChD>>
            \o FileTextOfItems([k \in 1..(2 * Len(v.v)) |->
                    IF k % 2 = 1 THEN StrTok(v.v[(k + 1) \div 2][1])
                    ELSE v.v[k \div 2][2]])
            \o <<ChE>>

Document(announce, info) ==
    DictTok(<< <<KeyAnnounce, StrTok(announce)>>, <<KeyInfo, DictTok(Present(info))>> >>)

InfoPairs(length, files) ==
    << <<KeyFiles, files>>, <<KeyLength, length>>, <<KeyName, StrTok(<<ChD, ChE>>)>>,
       <<KeyPieceLength, IntTok(16)>>, <<KeyPieces, StrTok(Bytes(HashSize))>> >>

Documents ==
    {Document(<<ChL>>, InfoPairs(IntTok(7), Nil)),
     Document(<<ChL>>, Append(InfoPairs(IntTok(7), Nil), <<<<ChL>>, IntTok(1)>>)),
     Document(<<ChL>>, InfoPairs(Nil, ListTok(<<FileItem(IntTok(3), PathA)>>))),
     Document(<<ChL>>, InfoPairs(Nil, ListTok(<<FileItem(IntTok(3), PathA),
                                                FileItem(IntTok(4), PathB)>>)))}

InitInfoHash ==
    /\ document \in Documents
    /\ contents \in {FileText(written) : written \in Iterations(document)}
    /\ decoded = Unset
    /\ goValue = Nil
    /\ encoded = Unset
    /\ redecoded = Unset
    /\ metainfo = Unset
    /\ torrent = Unset
    /\ pieceHashes = Unset
    /\ infoHashes = <<>>
    /\ PeerIdle
    /\ ScanIdle

\* what OpenTorrent makes of the file's text: the tokens, the metainfo token
\* (Nil when the call ends before it has one) and the Torrent
Opened(text) ==
    LET tokens == DecodeBencode(text) IN
    IF tokens.err # "nil" \/ tokens.tokens = <<>> \/ tokens.tokens[1].t # "dict"
    THEN [decoded |-> tokens, metainfo |-> Nil,
          torrent |-> TorrentResult(NoInfo, <<>>, "fatal")]
    ELSE [decoded |-> tokens, metainfo |-> tokens.tokens[1],
          torrent |-> NewTorrent(tokens.tokens[1].v)]

\* OpenTorrent(filename), the file holding contents
OpenTorrent ==
    /\ document # Unset
    /\ torrent = Unset
    /\ decoded' = Opened(contents).decoded
    /\ metainfo' = Opened(contents).metainfo
    /\ torrent' = Opened(contents).torrent
    /\ UNCHANGED <<contents, goValue, encoded, redecoded>>
    /\ UNCHANGED <<document, pieceHashes, infoHashes>>
    /\ UNCHANGED peerVars
    /\ UNCHANGED scanVars

\* torrent.Info.Hash(), the map Bencodable built iterated in some order
HashCall ==
    /\ torrent # Unset
    /\ torrent.err = "nil"
    /\ Len(infoHashes) < 2
    /\ \E iterated \in Iterations(Bencodable(torrent.Info)) :
            infoHashes' = Append(infoHashes, HashOf(iterated))
    /\ UNCHANGED <<document, metainfo, torrent, pieceHashes>>
    /\ UNCHANGED codecVars
    /\ UNCHANGED peerVars
    /\ UNCHANGED scanVars

NextInfoHash == OpenTorrent \/ HashCall

SpecInfoHash == InitInfoHash /\ [][NextInfoHash]_vars

(***************************************************************************)
(* The Bencode grammar, as a recogniser that is independent of the         *)
(* decoder.  Indices are 0-based; -1 says there is no well-formed token.   *)
(***************************************************************************)
SetMin(S) == CHOOSE x \in S : \A y \in S : x <= y

AllDigits(str) == str # <<>> /\ \A k \in 1..Len(str) : IsDigit(str[k])

\* <digits>:<bytes> starting at index i: the index just past it
WfStringEnd(c, i) ==
    LET colons == {j \in (i + 1)..Len(c) : c[j] = ChColon} IN
    IF colons = {} THEN -1
    ELSE LET j == SetMin(colons)
             digits == SubSeq(c, i + 1, j - 1)
         IN  IF ~AllDigits(digits) THEN -1
             ELSE IF j + DigitsValue(digits, 0) <= Len(c)
                  THEN j + DigitsValue(digits, 0)
                  ELSE -1

\* the digit run of a canonical integer: 0, or an optional '-' and digits
\* that do not start with 0
WfIntegerBody(body) ==
    \/ body = <<ChZero>>
    \/ /\ AllDigits(body)
       /\ body[1] # ChZero
    \/ /\ body # <<>>
       /\ body[1] = ChMinus
       /\ AllDigits(Tail(body))
       /\ body[2] # ChZero

\* i<body>e starting at index i: the index just past it
WfIntegerEnd(c, i) ==
    LET es == {j \in (i + 2)..Len(c) : c[j] = ChE} IN
    IF es = {} THEN -1
    ELSE IF WfIntegerBody(SubSeq(c, i + 2, SetMin(es) - 1)) THEN SetMin(es)
    ELSE -1

RECURSIVE WfTokenEnd(_, _)
RECURSIVE WfItemsEnd(_, _, _)

\* the items of a list (or the key/value pairs of a dictionary) from index i
\* up to and including the closing 'e': the index just past it
WfItemsEnd(c, i, isDict) ==
    IF i >= Len(c) THEN -1
    ELSE IF c[i + 1] = ChE THEN i + 1
    ELSE IF isDict /\ ~IsDigit(c[i + 1]) THEN -1
    ELSE LET k == WfTokenEnd(c, i)
             k2 == IF isDict /\ k # -1 THEN WfTokenEnd(c, k) ELSE k
         IN  IF k2 = -1 THEN -1 ELSE WfItemsEnd(c, k2, isDict)

WfTokenEnd(c, i) ==
    IF i >= Len(c) THEN -1
    ELSE IF IsDigit(c[i + 1]) THEN WfStringEnd(c, i)
    ELSE IF c[i + 1] = ChI THEN WfIntegerEnd(c, i)
    ELSE IF c[i + 1] = ChL THEN WfItemsEnd(c, i + 1, FALSE)
    ELSE IF c[i + 1] = ChD THEN WfItemsEnd(c, i + 1, TRUE)
    ELSE -1

\* the end indices of the well-formed tokens whose concatenation is c from
\* index i on; <<>> when c is no such concatenation
RECURSIVE WfEnds(_, _, _)
WfEnds(c, i, acc) ==
    IF i >= Len(c) THEN acc
    ELSE LET k == WfTokenEnd(c, i) IN
         IF k = -1 THEN <<>> ELSE WfEnds(c, k, Append(acc, k))

\* a list or dictionary opens at index i - 1 and the input ends, at a token
\* boundary, before its closing 'e'
RECURSIVE OpenItems(_, _, _)
OpenItems(c, i, isDict) ==
    \/ i >= Len(c)
    \/ /\ c[i + 1] # ChE
       /\ isDict => IsDigit(c[i + 1])
       /\ LET k == IF isDict THEN WfTokenEnd(c, i) ELSE i IN
          /\ k # -1
          /\ \/ WfTokenEnd(c, k) # -1 /\ OpenItems(c, WfTokenEnd(c, k), isDict)
             \/ /\ k < Len(c)
                /\ c[k + 1] \in {ChL, ChD}
                /\ OpenItems(c, k + 1, c[k + 1] = ChD)

Unterminated(c) ==
    /\ c # <<>>
    /\ c[1] \in {ChL, ChD}
    /\ OpenItems(c, 1, c[1] = ChD)

Failed(r) == r.err \in {"error", "EOF"}

(***************************************************************************)
(* Claims about decoding                                                   *)
(***************************************************************************)
IntegerBody == SubSeq(contents, 2, Len(contents) - 1)

\* contents is i<body>e, the body a run of digits and '-'
IsIntegerInput ==
    /\ Len(contents) >= 2
    /\ contents[1] = ChI
    /\ contents[Len(contents)] = ChE
    /\ \A k \in 1..Len(IntegerBody) :
            IsDigit(IntegerBody[k]) \/ IntegerBody[k] = ChMinus

\* C3: decoding i<body>e fails when the body is empty, is "-0", or has a
\* leading zero and is not "0"; a canonical body is accepted with its value.
C3_IntegerRejectsNonCanonical ==
    (decoded # Unset /\ IsIntegerInput) =>
        /\ ( \/ IntegerBody = <<>>
             \/ IntegerBody = <<ChMinus, ChZero>>
             \/ Len(IntegerBody) > 1 /\ IntegerBody[1] = ChZero ) => Failed(decoded)
        /\ WfIntegerBody(IntegerBody) =>
                /\ decoded.err = "nil"
                /\ decoded.tokens = <<IntTok(Atoi(IntegerBody).n)>>

\* C4: decoding a list or dictionary whose input ends before its closing 'e'
\* fails with an error and returns no container.
C4_UnterminatedContainerFails ==
    (decoded # Unset /\ Unterminated(contents)) => Failed(decoded)

\* contents is a dictionary whose first key position holds a well-formed
\* integer, list or dictionary, followed by a well-formed value
NonStringKeyInput ==
    /\ Len(contents) >= 2
    /\ contents[1] = ChD
    /\ contents[2] \in {ChI, ChL, ChD}
    /\ WfTokenEnd(contents, 1) # -1
    /\ WfTokenEnd(contents, WfTokenEnd(contents, 1)) # -1

\* C5: decoding a dictionary in which a key position holds a token that is
\* not a byte string returns a decode error to the caller.
C5_NonStringKeyFails ==
    (decoded # Unset /\ NonStringKeyInput) => Failed(decoded)

\* C6: for input that is the concatenation of k >= 1 well-formed tokens,
\* DecodeBencode returns k tokens, the i-th being the i-th token of the input.
C6_ConcatenationDecodesInOrder ==
    LET ends == WfEnds(contents, 0, <<>>)
        start(k) == IF k = 1 THEN 0 ELSE ends[k - 1]
    IN  (decoded # Unset /\ ends # <<>>) =>
            /\ decoded.err = "nil"
            /\ Len(decoded.tokens) = Len(ends)
            /\ \A k \in 1..Len(ends) :
                 LET one == ParseBencodeToken(Scanner(contents, start(k))) IN
                 /\ one.err = "nil"
                 /\ one.scanner.CurrentIndex = ends[k]
                 /\ decoded.tokens[k] = one.val

C6_Witness ==
    /\ decoded # Unset
    /\ Len(WfEnds(contents, 0, <<>>)) >= 2
    /\ Len(decoded.tokens) >= 2
    /\ decoded.tokens[1] # decoded.tokens[2]

(***************************************************************************)
(* Claims about encoding                                                   *)
(***************************************************************************)
\* C1: for every value v built from integers, byte strings, sequences and
\* string-keyed mappings, EncodeBencode(v) succeeds and DecodeBencode of it
\* succeeds with exactly one token, structurally equal to v.
C1_RoundTrip ==
    /\ encoded # Unset => encoded.err = "nil"
    /\ redecoded # Unset =>
        /\ redecoded.err = "nil"
        /\ Len(redecoded.tokens) = 1
        /\ DeepEqual(redecoded.tokens[1], goValue)

C1_Witness ==
    /\ redecoded # Unset
    /\ goValue.t = "dict"
    /\ Len(goValue.v) = 2
    /\ \E k \in 1..2 : goValue.v[k][2].t = "list" /\ goValue.v[k][2].v # <<>>
    /\ DeepEqual(redecoded.tokens[1], goValue)

\* the pairs of a map in ascending byte order of their keys
AscendingPairs(pairs) ==
    CHOOSE q \in Orderings(pairs) :
        \A i \in 1..Len(q) : \A j \in 1..Len(q) :
            i < j => StrLess(q[i][1], q[j][1])

RECURSIVE PairsText(_)
PairsText(pairs) ==
    IF pairs = <<>> THEN <<>>
    ELSE EncodeBencode(StrTok(Head(pairs)[1])).str
            \o EncodeBencode(Head(pairs)[2]).str
            \o PairsText(Tail(pairs))

\* C2: EncodeBencode of a mapping emits its pairs in ascending raw-byte order
\* of the keys, so the output is the same bytes in whatever order the map was
\* filled or is iterated.
C2_CanonicalKeyOrder ==
    (encoded # Unset /\ goValue.t = "dict") =>
        /\ encoded = EncodeBencode(goValue)
        /\ encoded.str = <<ChD>> \o PairsText(AscendingPairs(goValue.v)) \o <<ChE>>

C2_Witness ==
    /\ encoded # Unset
    /\ goValue.t = "dict"
    /\ Len(goValue.v) = 3
    /\ StrLess(goValue.v[2][1], goValue.v[1][1])
    /\ encoded.err = "nil"

(***************************************************************************)
(* Claims about the metainfo model                                         *)
(***************************************************************************)
InfoOf(m) == Lookup(m.v, KeyInfo)

\* announce or info is absent or of the wrong shape, or name, piece length
\* or pieces inside info is
LacksMandatoryField(m) ==
    \/ Lookup(m.v, KeyAnnounce).t # "str"
    \/ InfoOf(m).t # "dict"
    \/ /\ InfoOf(m).t = "dict"
       /\ \/ Lookup(InfoOf(m).v, KeyName).t # "str"
          \/ Lookup(InfoOf(m).v, KeyPieceLength).t # "int"
          \/ Lookup(InfoOf(m).v, KeyPieces).t # "str"

\* C7: NewTorrent returns an error, and does not crash, whenever announce or
\* info, or name, piece length or pieces inside info, is absent or of the
\* wrong shape.
C7_MissingFieldIsAnError ==
    (torrent # Unset /\ LacksMandatoryField(metainfo)) => torrent.err = "error"

\* C8: NewTorrent accepts an info dictionary only when exactly one of length
\* and files is present, and every Info it builds has exactly one of the
\* single-file length and the files list populated.
C8_ExactlyOneOfLengthAndFiles ==
    (torrent # Unset /\ torrent.err = "nil") =>
        /\ (Lookup(InfoOf(metainfo).v, KeyLength) # Nil)
                # (Lookup(InfoOf(metainfo).v, KeyFiles) # Nil)
        /\ (torrent.Info.Length # 0) # (torrent.Info.Files # <<>>)

\* C9: PieceHashes returns the k-th hash as bytes [20k, 20k + 20) of pieces,
\* in order, and reports a data error when the length of pieces is not a
\* multiple of 20.
C9_PieceHashesChunksOrFails ==
    pieceHashes # Unset =>
        LET pieces == torrent.Info.Pieces IN
        IF Len(pieces) % HashSize = 0
        THEN /\ pieceHashes.err = "nil"
             /\ Len(pieceHashes.hashes) = Len(pieces) \div HashSize
             /\ \A k \in 0..(Len(pieceHashes.hashes) - 1) :
                    pieceHashes.hashes[k + 1]
                        = [j \in 1..HashSize |-> pieces[HashSize * k + j]]
        ELSE pieceHashes.err # "nil"

\* the info hash OpenTorrent and Info.Hash give for a file's text, every map
\* iterated in the order it was filled
InfoHashOfFile(text) == HashOf(Bencodable(Opened(text).torrent.Info))

\* C10: Info.Hash is a deterministic function of the Info: every call gives
\* the same 20 bytes, and they are the bytes got from a file that holds the
\* same document with its dictionary keys in another order.
C10_InfoHashDeterministic ==
    \A k \in 1..Len(infoHashes) :
        /\ infoHashes[k].err = "nil"
        /\ infoHashes[k] = infoHashes[1]
        /\ infoHashes[k] = InfoHashOfFile(FileText(document))

C10_Witness ==
    /\ Len(infoHashes) = 2
    /\ contents # FileText(document)
    /\ torrent.Info.Files # <<>>
    /\ infoHashes[2].sum = InfoHashOfFile(FileText(document)).sum

\* the canonical Bencode encoding of the `info` dictionary of a document
CanonicalInfo(doc) == EncodeBencode(Lookup(doc.v, KeyInfo)).str

\* C11: for every metainfo dictionary NewTorrent accepts, Info.Hash is the
\* SHA-1 digest of the canonical Bencode encoding of the `info` dictionary
\* of that document, whatever keys the dictionary has.
C11_InfoHashIsDigestOfInfoDictionary ==
    torrent # Unset /\ torrent.err = "nil"
        => \A k \in 1..Len(infoHashes) :
                /\ infoHashes[k].err = "nil"
                /\ infoHashes[k].sum = Sha1Sum(CanonicalInfo(document))

(***************************************************************************)
(* Tracker client                                                          *)
(***************************************************************************)
KeyFailureReason == <<102, 97, 105, 108, 117, 114, 101, 32, 114, 101, 97, 115, 111, 110>>
KeyPeers == <<112, 101, 101, 114, 115>>
KeyInterval == <<105, 110, 116, 101, 114, 118, 97, 108>>
KeyIp == <<105, 112>>
KeyPort == <<112, 111, 114, 116>>
KeyPeerId == <<112, 101, 101, 114, 32, 105, 100>>
ChDot == 46
StatusOK == 200
CompactSize == 6

TrackerPeer(ip, port, peerId) == [Ip |-> ip, Port |-> port, PeerId |-> peerId]

TrackerResponse(interval, peers) == [Interval |-> interval, Peers |-> peers]

\* the nil *TrackerResponse returned with an error
NoResponse == [Interval |-> 0 - 1, Peers |-> <<>>, isNil |-> TRUE]

\* a mutant of BigEndianUint16: the low byte first
LittleEndianUint16(b) == b[2] * 256 + b[1]

\* binary.BigEndian.Uint16
BigEndianUint16(b) == b[1] * 256 + b[2]

\* fmt.Sprintf("%d.%d.%d.%d", ...)
SprintfIp(ipBytes) ==
    FormatInt(ipBytes[1]) \o <<ChDot>> \o FormatInt(ipBytes[2]) \o <<ChDot>>
        \o FormatInt(ipBytes[3]) \o <<ChDot>> \o FormatInt(ipBytes[4])

\* the loop of compactToPeerList from byte idx on: [peers, err]; a slice
\* expression that runs past the end of the string panics
RECURSIVE CompactLoop(_, _, _)
CompactLoop(str, idx, list) ==
    IF ~(idx < Len(str)) THEN [peers |-> list, err |-> "nil"]
    ELSE IF idx + 4 > Len(str) \/ idx + CompactSize > Len(str)
         THEN [peers |-> <<>>, err |-> "panic"]
    ELSE LET ipBytes == SubSeq(str, idx + 1, idx + 4)
             portBytes == SubSeq(str, idx + 5, idx + CompactSize)
             portInt == BigEndianUint16(portBytes)
             ip == SprintfIp(ipBytes)
         IN  CompactLoop(str, idx + CompactSize,
                         Append(list, TrackerPeer(ip, portInt, <<>>)))

compactToPeerList(str) == CompactLoop(str, 0, <<>>)

\* what GetPeers returns: [response, err, Message]; err is "nil", "error"
\* (an error made by fmt.Errorf), "failure" (an *ErrFailureReason carrying
\* Message) or "panic"
PeersResult(resp, err, message) == [response |-> resp, err |-> err, Message |-> message]

\* the loop over the elements of a `peers` list from element nth on
RECURSIVE PeerListLoop(_, _, _)
PeerListLoop(peers, nth, list) ==
    IF nth > Len(peers) THEN [peers |-> list, err |-> "nil"]
    ELSE LET peer == peers[nth] IN
         IF peer.t # "dict" THEN [peers |-> <<>>, err |-> "error"]
         ELSE LET ip == Lookup(peer.v, KeyIp)
                  port == Lookup(peer.v, KeyPort)
                  peerId == Lookup(peer.v, KeyPeerId)
              IN  IF ip.t # "str" \/ port.t # "int" \/ peerId.t # "str"
                  THEN [peers |-> <<>>, err |-> "panic"]
                  ELSE PeerListLoop(peers, nth + 1,
                                    Append(list, TrackerPeer(ip.v, port.v, peerId.v)))

\* GetPeers from the type switch on response["peers"] to its return
InterpretPeers(responseMap) ==
    LET peers == Lookup(responseMap, KeyPeers)
        list == IF peers.t = "list" THEN PeerListLoop(peers.v, 1, <<>>)
                ELSE IF peers.t = "str" THEN compactToPeerList(peers.v)
                ELSE [peers |-> <<>>, err |-> "error"]
        interval == Lookup(responseMap, KeyInterval)
    IN  IF list.err # "nil" THEN PeersResult(NoResponse, list.err, <<>>)
        ELSE IF interval.t # "int" THEN PeersResult(NoResponse, "panic", <<>>)
        ELSE PeersResult(TrackerResponse(interval.v, list.peers), "nil", <<>>)

\* a mutant of InterpretResponse: `failure reason` is looked at only when the
\* rest of the response could not be used
InterpretResponsePeersFirst(responseMap) ==
    LET failure == Lookup(responseMap, KeyFailureReason)
        interpreted == InterpretPeers(responseMap)
    IN  IF interpreted.err = "nil" THEN interpreted
        ELSE IF failure # Nil
        THEN IF failure.t = "str" THEN PeersResult(NoResponse, "failure", failure.v)
             ELSE PeersResult(NoResponse, "panic", <<>>)
        ELSE interpreted

\* GetPeers from the decoded response map on
InterpretResponse(responseMap) ==
    LET failure == Lookup(responseMap, KeyFailureReason) IN
    IF failure # Nil
    THEN IF failure.t = "str" THEN PeersResult(NoResponse, "failure", failure.v)
         ELSE PeersResult(NoResponse, "panic", <<>>)
    ELSE InterpretPeers(responseMap)

\* Torrent.GetPeers, given the scheme of the announce URL and how the HTTP
\* request went: x.transport is "ok" or "error" (http.Get or io.ReadAll
\* failed), x.status the status code, x.body the bytes read
GetPeers(x) ==
    IF x.scheme \notin {"http", "https"} THEN PeersResult(NoResponse, "error", <<>>)
    ELSE IF x.transport # "ok" THEN PeersResult(NoResponse, "error", <<>>)
    ELSE IF x.status # StatusOK THEN PeersResult(NoResponse, "error", <<>>)
    ELSE LET tokens == DecodeBencode(x.body) IN
         IF tokens.err = "panic" THEN PeersResult(NoResponse, "panic", <<>>)
         ELSE IF tokens.err # "nil" THEN PeersResult(NoResponse, "error", <<>>)
         ELSE IF tokens.tokens = <<>> THEN PeersResult(NoResponse, "panic", <<>>)
         ELSE IF tokens.tokens[1].t # "dict" THEN PeersResult(NoResponse, "error", <<>>)
         ELSE InterpretResponse(tokens.tokens[1].v)

CodecIdle ==
    /\ contents = <<>>
    /\ decoded = Unset
    /\ goValue = Nil
    /\ encoded = Unset
    /\ redecoded = Unset

TorrentIdle ==
    /\ document = Unset
    /\ metainfo = Unset
    /\ torrent = Unset
    /\ pieceHashes = Unset
    /\ infoHashes = <<>>

(***************************************************************************)
(* Decoding a compact peer string: up to MaxPeers whole entries and then   *)
(* the first bytes, five at most, of one more.                             *)
(***************************************************************************)
MaxPeers == 2

CompactEntries ==
    {<<127, 0, 0, 1, 26, 225>>, <<10, 0, 0, 255, 0, 80>>,
     <<255, 255, 255, 255, 255, 255>>, <<0, 0, 0, 0, 1, 0>>}

RECURSIVE CompactStrings(_)
CompactStrings(n) ==
    IF n = 0 THEN {<<>>}
    ELSE LET shorter == CompactStrings(n - 1) IN
         shorter \union {s \o entry : s \in {x \in shorter : Len(x) = CompactSize * (n - 1)},
                                      entry \in CompactEntries}

CompactTails == {SubSeq(entry, 1, n) : entry \in CompactEntries, n \in 0..(CompactSize - 1)}

InitCompact ==
    /\ format \in {whole \o tail : whole \in CompactStrings(MaxPeers), tail \in CompactTails}
    /\ peerList = Unset
    /\ exchange = Unset
    /\ response = Unset
    /\ CodecIdle
    /\ ScanIdle
    /\ BitIdle
    /\ TorrentIdle
    /\ WireIdle

\* compactToPeerList(format)
CompactToPeerListCall ==
    /\ peerList = Unset
    /\ peerList' = compactToPeerList(format)
    /\ UNCHANGED <<exchange, response, format>>
    /\ UNCHANGED <<codecVars, scanVars, torrentVars, wireVars, bitVars>>

NextCompact == CompactToPeerListCall

SpecCompact == InitCompact /\ [][NextCompact]_vars

(***************************************************************************)
(* Claims about the compact peer format                                    *)
(***************************************************************************)
\* entry k (from 0) of the compact string
CompactEntry(k) == SubSeq(format, CompactSize * k + 1, CompactSize * k + CompactSize)

\* the peers are the whole entries of the string, in order
DecodesWholeEntries ==
    /\ peerList.err = "nil"
    /\ Len(peerList.peers) = Len(format) \div CompactSize
    /\ \A k \in 0..(Len(peerList.peers) - 1) :
            LET entry == CompactEntry(k)
                peer == peerList.peers[k + 1]
            IN  /\ peer.Ip = FormatInt(entry[1]) \o <<ChDot>> \o FormatInt(entry[2])
                                \o <<ChDot>> \o FormatInt(entry[3])
                                \o <<ChDot>> \o FormatInt(entry[4])
                /\ peer.Port = 256 * entry[5] + entry[6]
                /\ peer.PeerId = <<>>

\* C14: a compact string of 6n bytes decodes to exactly n peers in input
\* order; peer k has the dotted-decimal rendering of bytes 6k..6k+3 as its
\* ip, the big-endian 16-bit value of bytes 6k+4..6k+5 as its port, and an
\* empty peer ID.
C14_CompactDecodesEveryEntry ==
    peerList # Unset /\ Len(format) % CompactSize = 0 => DecodesWholeEntries

C14_Witness ==
    /\ peerList # Unset
    /\ Len(format) = 2 * CompactSize
    /\ peerList.peers[1] = TrackerPeer(<<49, 50, 55, 46, 48, 46, 48, 46, 49>>, 6881, <<>>)
    /\ peerList.peers[2].Port = 80
    /\ DecodesWholeEntries

\* C15: a compact string whose length is not a multiple of 6 decodes to
\* exactly floor(length / 6) peers: the partial entry at the end is dropped
\* and the call completes normally.
C15_PartialEntryDropped ==
    peerList # Unset /\ Len(format) % CompactSize # 0 => DecodesWholeEntries

(***************************************************************************)
(* Announcing to a tracker.  The tracker answers with a dictionary in      *)
(* which each of `failure reason`, `interval` and `peers` is absent, of    *)
(* the right shape or of a wrong one, or with some other body; a `peers`   *)
(* list has at most MaxPeers elements.                                     *)
(***************************************************************************)
PeerItem(ip, port, peerId) ==
    DictTok(Present(<< <<KeyIp, ip>>, <<KeyPeerId, peerId>>, <<KeyPort, port>> >>))

AddressA == <<49, 46, 50, 46, 51, 46, 52>>
AddressB == <<49, 48, 46, 48, 46, 48, 46, 57>>

PeerItemChoices ==
    {PeerItem(StrTok(AddressA), IntTok(6881), StrTok(Bytes(HashSize))),
     PeerItem(StrTok(AddressB), IntTok(80), StrTok(<<>>)),
     IntTok(1),
     PeerItem(Nil, IntTok(6881), StrTok(Bytes(HashSize))),
     PeerItem(IntTok(1), IntTok(6881), StrTok(Bytes(HashSize))),
     PeerItem(StrTok(AddressA), Nil, StrTok(Bytes(HashSize))),
     PeerItem(StrTok(AddressA), StrTok(<<ChZero>>), StrTok(Bytes(HashSize))),
     PeerItem(StrTok(AddressA), IntTok(6881), Nil),
     PeerItem(StrTok(AddressA), IntTok(6881), IntTok(7))}

RECURSIVE PeerLists(_)
PeerLists(n) ==
    IF n = 0 THEN {<<>>}
    ELSE LET shorter == PeerLists(n - 1) IN
         shorter \union {Append(l, item) : l \in {x \in shorter : Len(x) = n - 1},
                                           item \in PeerItemChoices}

PeersChoices ==
    {Nil, IntTok(3), StrTok(<<>>), StrTok(<<127, 0, 0, 1, 26, 225>>),
     StrTok(<<127, 0, 0, 1, 26, 225, 10, 0, 0, 255, 0, 80, 9>>)}
        \union {ListTok(l) : l \in PeerLists(MaxPeers)}

FailureChoices == {Nil, StrTok(<<110, 111>>), StrTok(<<>>), IntTok(1)}

IntervalChoices == {Nil, IntTok(1800), StrTok(<<ChI>>)}

Answer(failure, interval, peers) ==
    DictTok(Present(<< <<KeyFailureReason, failure>>, <<KeyInterval, interval>>,
                       <<KeyPeers, peers>> >>))

Answers ==
    {Answer(failure, interval, peers) :
        failure \in FailureChoices, interval \in IntervalChoices, peers \in PeersChoices}

Exchange(scheme, transport, status, answer, body) ==
    [scheme |-> scheme, transport |-> transport, status |-> status,
     answer |-> answer, body |-> body]

Exchanges ==
    {Exchange(scheme, "ok", StatusOK, answer, FileText(answer)) :
        scheme \in {"http", "https"}, answer \in Answers}
    \union
    {Exchange(scheme, transport, status, answer, FileText(answer)) :
        scheme \in {"http", "https", "udp"}, transport \in {"ok", "error"},
        status \in {StatusOK, 404},
        answer \in {Answer(failure, IntTok(1800), StrTok(<<>>)) : failure \in FailureChoices}}
    \union
    {Exchange("http", "ok", StatusOK, Nil, body) :
        body \in {<<>>, <<ChI, ChZero, ChE>>, <<ChL, ChE>>, <<ChD>>, <<ChE>>}}

InitTracker ==
    /\ exchange \in Exchanges
    /\ response = Unset
    /\ format = <<>>
    /\ peerList = Unset
    /\ CodecIdle
    /\ ScanIdle
    /\ BitIdle
    /\ TorrentIdle
    /\ WireIdle

\* t.GetPeers(request)
GetPeersCall ==
    /\ exchange # Unset
    /\ response = Unset
    /\ response' = GetPeers(exchange)
    /\ UNCHANGED <<exchange, format, peerList>>
    /\ UNCHANGED <<codecVars, scanVars, torrentVars, wireVars, bitVars>>

NextTracker == GetPeersCall

SpecTracker == InitTracker /\ [][NextTracker]_vars

(***************************************************************************)
(* Claims about the tracker response                                       *)
(***************************************************************************)
\* GetPeers got a response dictionary from the tracker and has returned
AnsweredWithDictionary ==
    /\ response # Unset
    /\ exchange.scheme \in {"http", "https"}
    /\ exchange.transport = "ok"
    /\ exchange.status = StatusOK
    /\ exchange.answer.t = "dict"

AnswerOf(key) == Lookup(exchange.answer.v, key)

MalformedPeer(item) ==
    \/ item.t # "dict"
    \/ Lookup(item.v, KeyIp).t # "str"
    \/ Lookup(item.v, KeyPort).t # "int"
    \/ Lookup(item.v, KeyPeerId).t # "str"

HasMalformedPeer ==
    /\ AnswerOf(KeyFailureReason) = Nil
    /\ AnswerOf(KeyPeers).t = "list"
    /\ \E k \in 1..Len(AnswerOf(KeyPeers).v) : MalformedPeer(AnswerOf(KeyPeers).v[k])

\* C13: when `peers` is a list, GetPeers returns an error for every
\* malformed element: one that is not a dictionary, or a dictionary in which
\* `ip`, `port` or `peer id` is missing or of the wrong shape.
C13_MalformedPeerIsAnError ==
    (AnsweredWithDictionary /\ HasMalformedPeer) => response.err = "error"

(***************************************************************************)
(* Peer wire protocol.  A connection is [inbound, pos, written, dial,      *)
(* writable]: the bytes the peer sends before it closes the connection,    *)
(* how many of them were read, the bytes written to the peer, whether      *)
(* net.Dial succeeds and whether conn.Write does; `open` says that the     *)
(* connection was dialed and not closed since.                             *)
(***************************************************************************)
MessageChoke == 0
MessageUnchoke == 1
MessageInterested == 2
MessageNotInterested == 3
MessageHave == 4
MessageBitfield == 5
MessageRequest == 6
MessagePiece == 7
MessageCancel == 8
PeerIdSize == 20
ReservedSize == 8
PrefixSize == 4

ProtocolLabel ==
    <<66, 105, 116, 84, 111, 114, 114, 101, 110, 116, 32,
      112, 114, 111, 116, 111, 99, 111, 108>>

Connection(inbound, pos, written, dial, writable) ==
    [inbound |-> inbound, pos |-> pos, written |-> written,
     dial |-> dial, writable |-> writable, open |-> FALSE]

\* the connection net.Dial returned
Dialed(c) == [c EXCEPT !.open = TRUE]

\* a mutant of ReadN: the error of io.ReadFull is dropped and the array is
\* returned as it is, zeroes where nothing was read
ReadNIgnoringError(n, c) ==
    LET left == Len(c.inbound) - c.pos IN
    IF left >= n
    THEN [bytes |-> SubSeq(c.inbound, c.pos + 1, c.pos + n), err |-> "nil",
          conn |-> [c EXCEPT !.pos = c.pos + n]]
    ELSE [bytes |-> [k \in 1..n |-> IF k <= left THEN c.inbound[c.pos + k] ELSE 0],
          err |-> "nil", conn |-> [c EXCEPT !.pos = Len(c.inbound)]]

\* ReadN(n, conn), io.ReadFull on the connection: [bytes, err, conn]; err is
\* "nil", "EOF" (nothing was left) or "error" (io.ErrUnexpectedEOF)
ReadN(n, c) ==
    LET left == Len(c.inbound) - c.pos IN
    IF n = 0 THEN [bytes |-> <<>>, err |-> "nil", conn |-> c]
    ELSE IF left >= n
         THEN [bytes |-> SubSeq(c.inbound, c.pos + 1, c.pos + n), err |-> "nil",
               conn |-> [c EXCEPT !.pos = c.pos + n]]
    ELSE IF left = 0 THEN [bytes |-> <<>>, err |-> "EOF", conn |-> c]
    ELSE [bytes |-> <<>>, err |-> "error", conn |-> [c EXCEPT !.pos = Len(c.inbound)]]

\* conn.Write(bytes): [err, conn]
Write(c, bytes) ==
    IF c.writable THEN [err |-> "nil", conn |-> [c EXCEPT !.written = c.written \o bytes]]
    ELSE [err |-> "error", conn |-> c]

Handshake(protocol, reserved, infoHash, peerId) ==
    [Protocol |-> protocol, Reserved |-> reserved, InfoHash |-> infoHash, PeerId |-> peerId]

\* Handshake.Serialized
Serialized(h) ==
    <<Len(h.Protocol) % 256>> \o h.Protocol \o h.Reserved \o h.InfoHash \o h.PeerId

\* Handshake.Serialized of the revision TCPClient.Handshake belongs to
SerializedV1(h) ==
    <<Len(h.Protocol) % 256>> \o h.Protocol \o h.InfoHash \o h.PeerId

Zeroes(n) == [k \in 1..n |-> 0]

\* a mutant of ReadHandshake: the info hash is read and not compared
ReadHandshakeUnchecked(infoHash, peer, c) ==
    LET pStrLen == ReadN(1, c) IN
    IF pStrLen.err # "nil" THEN [err |-> "error", conn |-> pStrLen.conn]
    ELSE LET protocol == ReadN(pStrLen.bytes[1], pStrLen.conn) IN
    IF protocol.err # "nil" THEN [err |-> "error", conn |-> protocol.conn]
    ELSE LET reserved == ReadN(ReservedSize, protocol.conn) IN
    IF reserved.err # "nil" THEN [err |-> "error", conn |-> reserved.conn]
    ELSE LET recvInfoHash == ReadN(HashSize, reserved.conn) IN
    IF recvInfoHash.err # "nil" THEN [err |-> "error", conn |-> recvInfoHash.conn]
    ELSE LET recvPeerId == ReadN(PeerIdSize, recvInfoHash.conn) IN
    IF recvPeerId.err # "nil" THEN [err |-> "error", conn |-> recvPeerId.conn]
    ELSE IF Len(peer.PeerId) > 0 /\ recvPeerId.bytes # peer.PeerId
         THEN [err |-> "error", conn |-> recvPeerId.conn]
    ELSE [err |-> "nil", conn |-> recvPeerId.conn]

\* the part NewTCPClient and TCPClient.Handshake share: the peer's handshake
\* is read and validated: [err, conn]
ReadHandshake(infoHash, peer, c) ==
    LET pStrLen == ReadN(1, c) IN
    IF pStrLen.err # "nil" THEN [err |-> "error", conn |-> pStrLen.conn]
    ELSE LET protocol == ReadN(pStrLen.bytes[1], pStrLen.conn) IN
    IF protocol.err # "nil" THEN [err |-> "error", conn |-> protocol.conn]
    ELSE LET reserved == ReadN(ReservedSize, protocol.conn) IN
    IF reserved.err # "nil" THEN [err |-> "error", conn |-> reserved.conn]
    ELSE LET recvInfoHash == ReadN(HashSize, reserved.conn) IN
    IF recvInfoHash.err # "nil" THEN [err |-> "error", conn |-> recvInfoHash.conn]
    ELSE IF recvInfoHash.bytes # infoHash
         THEN [err |-> "error", conn |-> recvInfoHash.conn]
    ELSE LET recvPeerId == ReadN(PeerIdSize, recvInfoHash.conn) IN
    IF recvPeerId.err # "nil" THEN [err |-> "error", conn |-> recvPeerId.conn]
    ELSE IF Len(peer.PeerId) > 0 /\ recvPeerId.bytes # peer.PeerId
         THEN [err |-> "error", conn |-> recvPeerId.conn]
    ELSE [err |-> "nil", conn |-> recvPeerId.conn]

\* a TCPClient and the error it came with: `registered` says that the client
\* holds the connection (Connection of NewTCPClient's client, Connections[peer]
\* of the older one); `via` names the function that made it
TCPClient(via, err, s) ==
    [via |-> via, err |-> err, registered |-> err = "nil",
     PeerId |-> IF err = "nil" THEN s.peerId ELSE <<>>,
     InfoHash |-> IF err = "nil" THEN s.infoHash ELSE <<>>,
     Choked |-> err = "nil",
     Pieces |-> IF err = "nil" THEN s.pieces ELSE 0]

\* the dial, the write of the handshake and the read of the peer's, with the
\* serialisation given: [err, conn]
Connect(s, c, serialized) ==
    IF c.dial # "ok" THEN [err |-> "error", conn |-> c]
    ELSE LET sent == Write(Dialed(c), serialized) IN
         IF sent.err # "nil" THEN [err |-> "error", conn |-> sent.conn]
         ELSE ReadHandshake(s.infoHash, s.peer, sent.conn)

\* NewTCPClient(infoHash, peer, peerId, pieces): [err, conn]
NewTCPClient(s, c) ==
    Connect(s, c, Serialized(Handshake(ProtocolLabel, Zeroes(ReservedSize),
                                       s.infoHash, s.peerId)))

\* TCPClient.Handshake(peer) of the older revision, infoHash being the hash
\* of the client's MetaInfo: [err, conn]
HandshakeV1(s, c) ==
    Connect(s, c, SerializedV1(Handshake(ProtocolLabel, Zeroes(ReservedSize),
                                         s.infoHash, s.peerId)))

(***************************************************************************)
(* Messages.  A Message is the Go struct with every field, the unset ones  *)
(* at their zero value.  A uint32 is the pair <<high, low>> of its two     *)
(* 16-bit halves, the model checker's integers being narrower than 2^32.   *)
(***************************************************************************)
\* uint32(n) of an int n >= 0
Uint32(n) == <<(n \div 65536) % 65536, n % 65536>>

\* int(u) of a uint32 u; from 2^31 on it stands for a length that no
\* connection of the model delivers
IntOf(u) == IF u[1] >= 32768 THEN 2147483647 ELSE u[1] * 65536 + u[2]

Request(index, begin, length) == [Index |-> index, Begin |-> begin, Length |-> length]

Block(index, begin, block) == [Index |-> index, Begin |-> begin, Block |-> block]

BitField(field, length) == [Field |-> field, Length |-> length]

Message ==
    [Id |-> 0, KeepAlive |-> FALSE, Generic |-> FALSE, Contents |-> <<>>,
     PieceIndex |-> Uint32(0), BitField |-> BitField(<<>>, 0),
     Request |-> Request(Uint32(0), Uint32(0), Uint32(0)),
     Block |-> Block(Uint32(0), Uint32(0), <<>>)]

\* a mutant of PutUint32: the low byte first
PutUint32LittleEndian(u) ==
    <<u[2] % 256, u[2] \div 256, u[1] % 256, u[1] \div 256>>

\* binary.BigEndian.PutUint32, AppendUint32 and binary.Write of a uint32
PutUint32(u) ==
    <<u[1] \div 256, u[1] % 256, u[2] \div 256, u[2] % 256>>

\* binary.BigEndian.Uint32 of the first four bytes of b
BigEndianUint32(b) == <<b[1] * 256 + b[2], b[3] * 256 + b[4]>>

MessageResult(msg, err, c) == [msg |-> msg, err |-> err, conn |-> c]

\* ReadMessage from the message ID on: [msg, err]; messageBytes is the slice
\* ReadN returned and buffer the array behind it, which is longer than the
\* slice when ReadN returned fewer bytes than it made room for.  Indexing is
\* checked against the length of a slice and a slice expression s[a:b]
\* against its capacity; err is "panic" where the Go runtime aborts.
DecodeMessage(messageBytes, buffer, pieces) ==
    LET msgId == messageBytes[1]
        msgSlice == Tail(messageBytes)
        backing == Tail(buffer)
    IN  IF msgId \in {MessageChoke, MessageUnchoke, MessageInterested, MessageNotInterested}
        THEN [msg |-> [Message EXCEPT !.Id = msgId], err |-> "nil"]
        ELSE IF msgId = MessageHave
        THEN IF Len(msgSlice) < 4 THEN [msg |-> Message, err |-> "panic"]
             ELSE [msg |-> [Message EXCEPT !.Id = msgId,
                                           !.PieceIndex = BigEndianUint32(msgSlice)],
                   err |-> "nil"]
        ELSE IF msgId = MessageBitfield
        THEN [msg |-> [Message EXCEPT !.Id = msgId,
                                      !.BitField = BitField(msgSlice, pieces)],
              err |-> "nil"]
        ELSE IF msgId \in {MessageRequest, MessageCancel}
        THEN IF Len(backing) < 12 THEN [msg |-> Message, err |-> "panic"]
             ELSE [msg |-> [Message EXCEPT
                                !.Id = msgId,
                                !.Request = Request(BigEndianUint32(SubSeq(backing, 1, 4)),
                                                    BigEndianUint32(SubSeq(backing, 5, 8)),
                                                    BigEndianUint32(SubSeq(backing, 9, 12)))],
                   err |-> "nil"]
        ELSE IF msgId = MessagePiece
        THEN IF Len(backing) < 8 \/ Len(msgSlice) < 8 THEN [msg |-> Message, err |-> "panic"]
             ELSE [msg |-> [Message EXCEPT
                                !.Id = msgId,
                                !.Block = Block(BigEndianUint32(SubSeq(backing, 1, 4)),
                                                BigEndianUint32(SubSeq(backing, 5, 8)),
                                                SubSeq(msgSlice, 9, Len(msgSlice)))],
                   err |-> "nil"]
        ELSE [msg |-> [Message EXCEPT !.Generic = TRUE, !.Contents = msgSlice, !.Id = msgId],
              err |-> "nil"]

\* a mutant of ReadMessage: after the prefix only the message ID is read
ReadMessageIdOnly(c, pieces) ==
    LET prefixBytes == ReadN(PrefixSize, c) IN
    IF prefixBytes.err # "nil" THEN MessageResult(Message, prefixBytes.err, prefixBytes.conn)
    ELSE LET lengthPrefix == BigEndianUint32(prefixBytes.bytes) IN
    IF lengthPrefix = Uint32(0)
    THEN MessageResult([Message EXCEPT !.KeepAlive = TRUE], "nil", prefixBytes.conn)
    ELSE LET messageBytes == ReadN(1, prefixBytes.conn) IN
    IF messageBytes.err # "nil" THEN MessageResult(Message, "error", messageBytes.conn)
    ELSE LET message == DecodeMessage(messageBytes.bytes, messageBytes.bytes, pieces)
         IN  MessageResult(message.msg, message.err, messageBytes.conn)

\* TCPClient.ReadMessage of a client that holds connection c: [msg, err, conn]
ReadMessage(c, pieces) ==
    LET prefixBytes == ReadN(PrefixSize, c) IN
    IF prefixBytes.err # "nil" THEN MessageResult(Message, prefixBytes.err, prefixBytes.conn)
    ELSE LET lengthPrefix == BigEndianUint32(prefixBytes.bytes) IN
    IF lengthPrefix = Uint32(0)
    THEN MessageResult([Message EXCEPT !.KeepAlive = TRUE], "nil", prefixBytes.conn)
    ELSE LET messageBytes == ReadN(IntOf(lengthPrefix), prefixBytes.conn) IN
    IF messageBytes.err # "nil" THEN MessageResult(Message, "error", messageBytes.conn)
    ELSE LET message == DecodeMessage(messageBytes.bytes, messageBytes.bytes, pieces)
         IN  MessageResult(message.msg, message.err, messageBytes.conn)

\* a mutant of SendMessage: a message ID without a case of its own is framed
\* and written like choke
SendMessageAnyId(c, message) ==
    IF message.KeepAlive
    THEN Write(c, <<0, 0, 0, 0>>)
    ELSE IF message.Id = MessageRequest
    THEN LET msgSent == <<message.Id % 256>> \o PutUint32(message.Request.Index)
                            \o PutUint32(message.Request.Begin)
                            \o PutUint32(message.Request.Length)
         IN  Write(c, PutUint32(Uint32(Len(msgSent))) \o msgSent)
    ELSE IF message.Id = MessageHave
    THEN LET msgSent == <<message.Id % 256>> \o PutUint32(message.PieceIndex)
         IN  Write(c, PutUint32(Uint32(Len(msgSent))) \o msgSent)
    ELSE [err |-> "nil", conn |-> Write(c, PutUint32(Uint32(1)) \o <<message.Id % 256>>).conn]

\* TCPClient.SendMessage of a client that holds connection c: [err, conn]
SendMessage(c, message) ==
    IF message.KeepAlive
    THEN Write(c, <<0, 0, 0, 0>>)
    ELSE IF message.Id \in {MessageChoke, MessageUnchoke, MessageInterested,
                            MessageNotInterested}
    THEN [err |-> "nil", conn |-> Write(c, PutUint32(Uint32(1)) \o <<message.Id % 256>>).conn]
    ELSE IF message.Id = MessageRequest
    THEN LET msgSent == <<message.Id % 256>> \o PutUint32(message.Request.Index)
                            \o PutUint32(message.Request.Begin)
                            \o PutUint32(message.Request.Length)
         IN  Write(c, PutUint32(Uint32(Len(msgSent))) \o msgSent)
    ELSE IF message.Id = MessageHave
    THEN LET msgSent == <<message.Id % 256>> \o PutUint32(message.PieceIndex)
         IN  Write(c, PutUint32(Uint32(Len(msgSent))) \o msgSent)
    ELSE [err |-> "error", conn |-> c]

(***************************************************************************)
(* Connecting to a peer.  The peer answers with a handshake (any label,    *)
(* one of two info hashes, one of two peer IDs) and one frame, and closes  *)
(* the connection after any number of these bytes.                         *)
(***************************************************************************)
MaxFrames == 2

HashA == [k \in 1..HashSize |-> k]
HashB == [k \in 1..HashSize |-> IF k = HashSize THEN 0 ELSE k]
PeerIdA == [k \in 1..PeerIdSize |-> 64 + k]
PeerIdB == [k \in 1..PeerIdSize |-> IF k = 1 THEN 45 ELSE 64 + k]
PeerIdLocal == [k \in 1..PeerIdSize |-> 96 + k]

Session(infoHash, peer, peerId, pieces) ==
    [infoHash |-> infoHash, peer |-> peer, peerId |-> peerId, pieces |-> pieces]

Reply(label, infoHash, peerId) ==
    <<Len(label)>> \o label \o Zeroes(ReservedSize) \o infoHash \o peerId

KeepAliveFrame == <<0, 0, 0, 0>>

Prefixes(str) == {SubSeq(str, 1, n) : n \in 0..Len(str)}

Replies ==
    UNION {Prefixes(Reply(label, infoHash, peerId) \o frame) :
                label \in {ProtocolLabel, <<>>, <<ChE>>},
                infoHash \in {HashA, HashB},
                peerId \in {PeerIdA, PeerIdB},
                frame \in {KeepAliveFrame, <<0, 0, 0, 1, MessageUnchoke>>}}

InitHandshake ==
    /\ session \in {Session(HashA, TrackerPeer(AddressA, 6881, peerId), PeerIdLocal, 3) :
                        peerId \in {<<>>, PeerIdA}}
    /\ conn \in {Connection(inbound, 0, <<>>, flags[1], flags[2]) :
                    inbound \in Replies,
                    flags \in {<<"ok", TRUE>>, <<"ok", FALSE>>, <<"error", TRUE>>}}
    /\ client = Unset
    /\ received = <<>>
    /\ outgoing = <<>>
    /\ remote = Unset
    /\ CodecIdle
    /\ ScanIdle
    /\ BitIdle
    /\ TorrentIdle
    /\ TrackerIdle

\* what a call of ReadMessage did: the result and the bytes it read
Received(result, c) ==
    [msg |-> result.msg, err |-> result.err, from |-> c.pos, to |-> result.conn.pos]

\* NewTCPClient(session.infoHash, session.peer, session.peerId, session.pieces)
NewTCPClientCall ==
    /\ session # Unset
    /\ client = Unset
    /\ client' = TCPClient("NewTCPClient", NewTCPClient(session, conn).err, session)
    /\ conn' = NewTCPClient(session, conn).conn
    /\ UNCHANGED <<received, outgoing, session, remote>>
    /\ UNCHANGED <<codecVars, scanVars, torrentVars, trackerVars, bitVars>>

\* client.Handshake(session.peer) of the older revision
HandshakeCall ==
    /\ session # Unset
    /\ client = Unset
    /\ client' = TCPClient("Handshake", HandshakeV1(session, conn).err, session)
    /\ conn' = HandshakeV1(session, conn).conn
    /\ UNCHANGED <<received, outgoing, session, remote>>
    /\ UNCHANGED <<codecVars, scanVars, torrentVars, trackerVars, bitVars>>

\* client.ReadMessage() on what NewTCPClient returned; on the nil client that
\* came with an error the call dereferences nil
ReadMessageCall ==
    /\ client # Unset
    /\ client.via = "NewTCPClient"
    /\ Len(received) < MaxFrames
    /\ LET result == IF client.registered THEN ReadMessage(conn, client.Pieces)
                     ELSE MessageResult(Message, "panic", conn)
       IN  /\ received' = Append(received, Received(result, conn))
           /\ conn' = result.conn
    /\ UNCHANGED <<client, outgoing, session, remote>>
    /\ UNCHANGED <<codecVars, scanVars, torrentVars, trackerVars, bitVars>>

\* client.ReadMessage(session.peer) of the older revision, whose client looks
\* the connection up in Connections
ReadMessagePeerCall ==
    /\ session # Unset
    /\ conn # Unset
    /\ IF client = Unset THEN TRUE ELSE client.via = "Handshake"
    /\ Len(received) < MaxFrames
    /\ LET result == IF client # Unset /\ client.registered
                     THEN ReadMessage(conn, session.pieces)
                     ELSE MessageResult(Message, "error", conn)
       IN  /\ received' = Append(received, Received(result, conn))
           /\ conn' = result.conn
    /\ UNCHANGED <<client, outgoing, session, remote>>
    /\ UNCHANGED <<codecVars, scanVars, torrentVars, trackerVars, bitVars>>

NextHandshake == NewTCPClientCall \/ HandshakeCall \/ ReadMessageCall \/ ReadMessagePeerCall

SpecHandshake == InitHandshake /\ [][NextHandshake]_vars

(***************************************************************************)
(* Claims about the handshake                                              *)
(***************************************************************************)
\* the connection was dialled and the handshake written to it
WroteHandshake == client # Unset /\ conn.dial = "ok" /\ conn.writable

\* C16: the handshake written to the peer is one byte holding the length of
\* the protocol label, the label, 8 reserved bytes, the 20-byte info hash
\* and the 20-byte peer ID, in that order and with no length prefix: 68
\* bytes for the label "BitTorrent protocol".
C16_HandshakeLayout ==
    WroteHandshake
        => /\ conn.written = <<Len(ProtocolLabel)>> \o ProtocolLabel \o Zeroes(ReservedSize)
                                \o session.infoHash \o session.peerId
           /\ Len(conn.written) = 68

\* where the info hash of the peer's handshake ends, the peer having sent
\* that much
InboundHashEnd == 1 + conn.inbound[1] + ReservedSize + HashSize

InboundHasHash == Len(conn.inbound) >= 1 /\ Len(conn.inbound) >= InboundHashEnd

InboundInfoHash == SubSeq(conn.inbound, InboundHashEnd - HashSize + 1, InboundHashEnd)

InboundPeerId == SubSeq(conn.inbound, InboundHashEnd + 1, InboundHashEnd + PeerIdSize)

\* the label and the last 40 bytes of what was written are the handshake's
OutboundHandshakeWritten ==
    /\ Len(conn.written) >= 1 + Len(ProtocolLabel) + HashSize + PeerIdSize
    /\ SubSeq(conn.written, 1, 1 + Len(ProtocolLabel)) = <<Len(ProtocolLabel)>> \o ProtocolLabel
    /\ SubSeq(conn.written, Len(conn.written) - HashSize - PeerIdSize + 1, Len(conn.written))
            = session.infoHash \o session.peerId

\* C17: a connection is usable for messages (NewTCPClient returned a client,
\* Handshake registered the connection) only after the handshake was written
\* and the peer's was validated: its info hash is the expected one and its
\* peer ID is the tracker's whenever that one is not empty.  When the info
\* hash differs the handshake fails before the peer ID is read, and no message
\* is ever read from the connection.
C17_EstablishedOnlyAfterValidation ==
    /\ (client # Unset /\ client.registered)
            => /\ OutboundHandshakeWritten
               /\ InboundHasHash
               /\ Len(conn.inbound) >= InboundHashEnd + PeerIdSize
               /\ InboundInfoHash = session.infoHash
               /\ session.peer.PeerId # <<>> => InboundPeerId = session.peer.PeerId
    /\ (WroteHandshake /\ InboundHasHash /\ InboundInfoHash # session.infoHash)
            => /\ client.err # "nil"
               /\ ~client.registered
               /\ conn.pos = InboundHashEnd
    /\ \A k \in 1..Len(received) :
            \/ client # Unset /\ client.registered
            \/ received[k].err # "nil" /\ received[k].to = received[k].from

C17_Witness ==
    /\ client # Unset
    /\ client.registered
    /\ session.peer.PeerId = PeerIdA
    /\ InboundPeerId = PeerIdA
    /\ Len(received) = 1
    /\ received[1].err = "nil"
    /\ received[1].msg.Id = MessageUnchoke

(***************************************************************************)
(* The older client of package main: its ReadN is one Read of the          *)
(* connection, which returns the bytes that have arrived so far.           *)
(***************************************************************************)
\* how much of the array ReadN made is ever looked at: the message ID and
\* three uint32
DecodeWindow == 1 + 3 * PrefixSize

Min(a, b) == IF a < b THEN a ELSE b

\* ReadN(n, conn) of package main, `arrived` bytes being there to read:
\* [bytes, buffer, err, conn]; buffer is the start of the zeroed array of n
\* bytes the slice `bytes` is cut from
ReadNMain(n, c, arrived) ==
    LET left == Len(c.inbound) - c.pos
        nRead == Min(n, Min(arrived, left))
        read == SubSeq(c.inbound, c.pos + 1, c.pos + nRead)
    IN  IF n = 0 THEN [bytes |-> <<>>, buffer |-> <<>>, err |-> "nil", conn |-> c]
        ELSE IF left = 0 THEN [bytes |-> <<>>, buffer |-> <<>>, err |-> "EOF", conn |-> c]
        ELSE [bytes |-> read,
              buffer |-> [k \in 1..Min(n, DecodeWindow) |->
                            IF k <= nRead THEN read[k] ELSE 0],
              err |-> "nil",
              conn |-> [c EXCEPT !.pos = c.pos + nRead]]

\* ReadMessage of package main from the message ID on: a generic message
\* gets no Contents, and the bit field is the slice itself
DecodeMessageMain(messageBytes, buffer) ==
    LET message == DecodeMessage(messageBytes, buffer, 0) IN
    IF message.err = "nil" /\ message.msg.Generic
    THEN [msg |-> [message.msg EXCEPT !.Contents = <<>>], err |-> "nil"]
    ELSE message

\* TCPClient.ReadMessage(peer) of package main, the connection c being in
\* Connections or not; the two calls of ReadN find `first` and `second`
\* bytes arrived: [msg, err, conn]
ReadMessageMain(c, registered, first, second) ==
    IF ~registered THEN MessageResult(Message, "error", c)
    ELSE LET prefixBytes == ReadNMain(PrefixSize, c, first) IN
    IF prefixBytes.err # "nil" THEN MessageResult(Message, prefixBytes.err, prefixBytes.conn)
    ELSE IF Len(prefixBytes.bytes) < PrefixSize
         THEN MessageResult(Message, "panic", prefixBytes.conn)
    ELSE LET lengthPrefix == BigEndianUint32(prefixBytes.bytes) IN
    IF lengthPrefix = Uint32(0)
    THEN MessageResult([Message EXCEPT !.KeepAlive = TRUE], "nil", prefixBytes.conn)
    ELSE LET messageBytes == ReadNMain(IntOf(lengthPrefix), prefixBytes.conn, second) IN
    IF messageBytes.err # "nil" THEN MessageResult(Message, "error", messageBytes.conn)
    ELSE LET message == DecodeMessageMain(messageBytes.bytes, messageBytes.buffer)
         IN  MessageResult(message.msg, message.err, messageBytes.conn)

(***************************************************************************)
(* Reading messages.  After the handshake the peer sends up to MaxFrames   *)
(* frames and closes the connection, the last frame whole or cut short.    *)
(***************************************************************************)
Frame(id, payload) == PutUint32(Uint32(1 + Len(payload))) \o <<id>> \o payload

Uint32Choices == {Uint32(7), <<65535, 65535>>, Uint32(16384)}

Frames ==
    {KeepAliveFrame}
    \union {Frame(id, <<>>) : id \in {MessageChoke, MessageUnchoke, MessageInterested,
                                      MessageNotInterested}}
    \union {Frame(MessageHave, PutUint32(Uint32(7))),
            Frame(MessageBitfield, <<160>>), Frame(MessageBitfield, <<>>),
            Frame(MessageRequest, PutUint32(Uint32(1)) \o PutUint32(<<65535, 65535>>)
                                    \o PutUint32(Uint32(16384))),
            Frame(MessageCancel, PutUint32(<<1, 2>>) \o PutUint32(Uint32(0))
                                    \o PutUint32(Uint32(16384))),
            Frame(MessagePiece, PutUint32(Uint32(2)) \o PutUint32(Uint32(16384))),
            Frame(MessagePiece, PutUint32(Uint32(2)) \o PutUint32(<<1, 0>>) \o <<9, 8, 7>>),
            Frame(9, <<>>), Frame(20, <<5, 6>>),
            Frame(MessageHave, <<0, 0, 7>>),
            Frame(MessageRequest, PutUint32(Uint32(1)) \o PutUint32(Uint32(0))),
            Frame(MessageCancel, <<0, 0, 0, 1, 0>>),
            Frame(MessagePiece, PutUint32(Uint32(2))),
            Frame(MessageChoke, <<1, 2>>),
            Frame(MessageHave, PutUint32(Uint32(7)) \o <<9>>)}

RECURSIVE FrameStreams(_)
FrameStreams(n) ==
    IF n = 0 THEN {<<>>}
    ELSE {frame \o rest : frame \in Frames, rest \in FrameStreams(n - 1)}

\* a frame whole, without its last byte, cut after its length prefix or cut
\* inside the prefix
Cuts(frame) ==
    {frame, SubSeq(frame, 1, Len(frame) - 1), SubSeq(frame, 1, PrefixSize),
     SubSeq(frame, 1, 2)}

Streams ==
    UNION {{whole \o last : whole \in FrameStreams(n), last \in UNION {Cuts(f) : f \in Frames}} :
                n \in 0..(MaxFrames - 1)}

ArrivedChoices == {2, DecodeWindow}

InitWire ==
    /\ session = Session(HashA, TrackerPeer(AddressA, 6881, PeerIdA), PeerIdLocal, 3)
    /\ \E stream \in Streams, via \in {"NewTCPClient", "main.Handshake"} :
            /\ conn = Dialed(Connection(Reply(ProtocolLabel, HashA, PeerIdA) \o stream,
                                        Len(Reply(ProtocolLabel, HashA, PeerIdA)),
                                        Serialized(Handshake(ProtocolLabel,
                                                             Zeroes(ReservedSize),
                                                             HashA, PeerIdLocal)),
                                        "ok", TRUE))
            /\ client = TCPClient(via, "nil", session)
    /\ received = <<>>
    /\ outgoing = <<>>
    /\ remote = Unset
    /\ CodecIdle
    /\ ScanIdle
    /\ BitIdle
    /\ TorrentIdle
    /\ TrackerIdle

\* client.ReadMessage(session.peer) of package main
ReadMessageMainCall ==
    /\ client # Unset
    /\ client.via = "main.Handshake"
    /\ Len(received) < MaxFrames
    /\ \E first \in ArrivedChoices, second \in ArrivedChoices :
            LET result == ReadMessageMain(conn, client.registered, first, second)
            IN  /\ received' = Append(received, Received(result, conn))
                /\ conn' = result.conn
    /\ UNCHANGED <<client, outgoing, session, remote>>
    /\ UNCHANGED <<codecVars, scanVars, torrentVars, trackerVars, bitVars>>

NextWire == ReadMessageCall \/ ReadMessageMainCall

SpecWire == InitWire /\ [][NextWire]_vars

(***************************************************************************)
(* Claims about reading messages                                           *)
(***************************************************************************)
\* the bytes the peer sent from position p on (p counts from 0)
InboundFrom(p) == SubSeq(conn.inbound, p + 1, Len(conn.inbound))

\* the 32-bit big-endian number at position p, as <<high, low>>
NumberAt(p) ==
    <<256 * conn.inbound[p + 1] + conn.inbound[p + 2],
      256 * conn.inbound[p + 3] + conn.inbound[p + 4]>>

\* the length prefix at position p, four bytes being there
LengthAt(p) == IntOf(NumberAt(p))

\* the whole frame that starts at position p: its prefix and as many bytes
\* as the prefix says were sent
WholeFrameAt(p) ==
    /\ p + PrefixSize <= Len(conn.inbound)
    /\ p + PrefixSize + LengthAt(p) <= Len(conn.inbound)

PayloadAt(p) == SubSeq(conn.inbound, p + PrefixSize + 2, p + PrefixSize + LengthAt(p))

\* the frame at position p has the payload the message table gives its ID
WellFormedFrameAt(p) ==
    /\ WholeFrameAt(p)
    /\ LengthAt(p) > 0 =>
        LET id == conn.inbound[p + PrefixSize + 1]
            size == Len(PayloadAt(p))
        IN  /\ id \in {MessageChoke, MessageUnchoke, MessageInterested,
                       MessageNotInterested} => size = 0
            /\ id = MessageHave => size = 4
            /\ id \in {MessageRequest, MessageCancel} => size = 12
            /\ id = MessagePiece => size >= 8

\* msg is what the message table makes of the well-formed frame at p
DecodedByTable(msg, p) ==
    IF LengthAt(p) = 0 THEN msg.KeepAlive
    ELSE LET id == conn.inbound[p + PrefixSize + 1]
             payload == PayloadAt(p)
             q == p + PrefixSize + 1
         IN  /\ ~msg.KeepAlive
             /\ msg.Id = id
             /\ msg.Generic = (id > MessageCancel)
             /\ id = MessageHave => msg.PieceIndex = NumberAt(q)
             /\ id = MessageBitfield => msg.BitField.Field = payload
             /\ id \in {MessageRequest, MessageCancel}
                    => msg.Request = Request(NumberAt(q), NumberAt(q + 4), NumberAt(q + 8))
             /\ id = MessagePiece
                    => msg.Block = Block(NumberAt(q), NumberAt(q + 4),
                                         SubSeq(payload, 9, Len(payload)))
             /\ id > MessageCancel => msg.Contents = payload

\* C18: ReadMessage decodes every well-formed frame by the message table: a
\* length prefix of 0 is a KeepAlive and no ID byte is read; IDs 0 to 3 are
\* choke, unchoke, interested and not-interested; ID 4 is Have with the
\* big-endian piece index; ID 5 a Bitfield of all the remaining bytes; IDs 6
\* and 8 carry index, begin and length; ID 7 index, begin and the remaining
\* bytes as the block; any other ID is a Generic message with the ID and the
\* remaining bytes unchanged.
C18_ReadMessageFollowsTable ==
    \A k \in 1..Len(received) :
        WellFormedFrameAt(received[k].from)
            => /\ received[k].err = "nil"
               /\ received[k].to = received[k].from + PrefixSize + LengthAt(received[k].from)
               /\ DecodedByTable(received[k].msg, received[k].from)

\* the connection delivers fewer bytes from position p on than ReadMessage
\* needs
ShortFrameAt(p) == ~WholeFrameAt(p)

\* C20: when the connection delivers fewer than the 4 prefix bytes, or fewer
\* payload bytes than the prefix declares, before it closes, ReadMessage
\* returns an error and no message built from the partial frame.
C20_ShortReadIsAnError ==
    client # Unset /\ client.via = "NewTCPClient"
        => \A k \in 1..Len(received) :
                ShortFrameAt(received[k].from)
                    => /\ received[k].err \in {"EOF", "error"}
                       /\ received[k].msg = Message

C20_Witness ==
    /\ client # Unset
    /\ client.via = "NewTCPClient"
    /\ Len(received) = 2
    /\ received[1].err = "nil"
    /\ received[2].from + PrefixSize <= Len(conn.inbound)
    /\ LengthAt(received[2].from) = 13
    /\ Len(InboundFrom(received[2].from)) = PrefixSize + 12
    /\ received[2].err = "error"

(***************************************************************************)
(* Sending messages.  Both ends have shaken hands; what SendMessage writes *)
(* to the connection arrives at the peer, whose own client reads it with   *)
(* ReadMessage.  Up to MaxFrames messages are sent.                        *)
(***************************************************************************)
RequestChoices ==
    {Request(Uint32(0), Uint32(0), Uint32(0)),
     Request(Uint32(1), <<65535, 65535>>, Uint32(16384)),
     Request(<<65535, 65535>>, Uint32(16384), Uint32(7)),
     Request(<<1, 2>>, <<3, 4>>, <<5, 6>>)}

MessagesToSend ==
    {[Message EXCEPT !.KeepAlive = TRUE],
     [Message EXCEPT !.KeepAlive = TRUE, !.Id = MessageRequest]}
    \union {[Message EXCEPT !.Id = id] :
                id \in {MessageChoke, MessageUnchoke, MessageInterested,
                        MessageNotInterested, MessageBitfield, MessagePiece, MessageCancel}}
    \union {[Message EXCEPT !.Id = MessageHave, !.PieceIndex = index] :
                index \in Uint32Choices}
    \union {[Message EXCEPT !.Id = MessageRequest, !.Request = request] :
                request \in RequestChoices}
    \union {[Message EXCEPT !.Id = 20, !.Generic = TRUE, !.Contents = <<5, 6>>]}

InitSend ==
    /\ session = Session(HashA, TrackerPeer(AddressA, 6881, PeerIdA), PeerIdLocal, 3)
    /\ \E writable \in BOOLEAN :
            conn = Dialed(Connection(Reply(ProtocolLabel, HashA, PeerIdA),
                                     Len(Reply(ProtocolLabel, HashA, PeerIdA)),
                                     Reply(ProtocolLabel, HashA, PeerIdLocal),
                                     "ok", writable))
    /\ remote = Dialed(Connection(Reply(ProtocolLabel, HashA, PeerIdLocal),
                                  Len(Reply(ProtocolLabel, HashA, PeerIdLocal)),
                                  Reply(ProtocolLabel, HashA, PeerIdA),
                                  "ok", TRUE))
    /\ client = TCPClient("NewTCPClient", "nil", session)
    /\ received = <<>>
    /\ outgoing = <<>>
    /\ CodecIdle
    /\ ScanIdle
    /\ BitIdle
    /\ TorrentIdle
    /\ TrackerIdle

\* client.SendMessage(message); the bytes written arrive at the peer
SendMessageCall ==
    /\ client # Unset
    /\ client.registered
    /\ remote # Unset
    /\ Len(outgoing) < MaxFrames
    /\ \E message \in MessagesToSend :
            LET result == SendMessage(conn, message)
                wrote == SubSeq(result.conn.written, Len(conn.written) + 1,
                                Len(result.conn.written))
            IN  /\ conn' = result.conn
                /\ outgoing' = Append(outgoing, [msg |-> message, err |-> result.err,
                                                 wrote |-> wrote])
                /\ remote' = [remote EXCEPT !.inbound = remote.inbound \o wrote]
    /\ UNCHANGED <<client, received, session>>
    /\ UNCHANGED <<codecVars, scanVars, torrentVars, trackerVars, bitVars>>

\* ReadMessage() of the peer's client, bytes having arrived for it
PeerReadMessageCall ==
    /\ remote # Unset
    /\ remote.pos < Len(remote.inbound)
    /\ LET result == ReadMessage(remote, session.pieces)
       IN  /\ received' = Append(received, Received(result, remote))
           /\ remote' = result.conn
    /\ UNCHANGED <<conn, client, outgoing, session>>
    /\ UNCHANGED <<codecVars, scanVars, torrentVars, trackerVars, bitVars>>

NextSend == SendMessageCall \/ PeerReadMessageCall

SpecSend == InitSend /\ [][NextSend]_vars

(***************************************************************************)
(* Claims about sending messages                                           *)
(***************************************************************************)
\* the message is of a type SendMessage sends
Sendable(message) ==
    \/ message.KeepAlive
    \/ message.Id \in {MessageChoke, MessageUnchoke, MessageInterested,
                       MessageNotInterested, MessageHave, MessageRequest}

\* the calls of SendMessage that wrote to the connection, in order
Written == SelectSeq(outgoing, LAMBDA call : call.wrote # <<>>)

\* got has the type of the message sent and its field values
SameMessage(sent, got) ==
    IF sent.KeepAlive THEN got.KeepAlive
    ELSE /\ ~got.KeepAlive
         /\ ~got.Generic
         /\ got.Id = sent.Id
         /\ sent.Id = MessageHave => got.PieceIndex = sent.PieceIndex
         /\ sent.Id = MessageRequest => got.Request = sent.Request

\* bytes is one frame: a length prefix and as many bytes as it says
OneFrame(bytes) ==
    /\ Len(bytes) >= PrefixSize
    /\ bytes[1] = 0 /\ bytes[2] = 0
    /\ 256 * bytes[3] + bytes[4] = Len(bytes) - PrefixSize

\* C19: for every message type SendMessage can send (keep-alive, choke,
\* unchoke, interested, not-interested, have, request) the bytes it writes
\* are one well-formed frame, which ReadMessage decodes back to a message of
\* the same type with the same field values.
C19_SendThenReadRoundTrip ==
    /\ \A k \in 1..Len(outgoing) :
            /\ (Sendable(outgoing[k].msg) /\ conn.writable)
                    => outgoing[k].err = "nil" /\ OneFrame(outgoing[k].wrote)
            /\ ~Sendable(outgoing[k].msg) => outgoing[k].wrote = <<>>
    /\ \A k \in 1..Len(received) :
            /\ k <= Len(Written)
            /\ received[k].err = "nil"
            /\ received[k].to - received[k].from = Len(Written[k].wrote)
            /\ SameMessage(Written[k].msg, received[k].msg)

C19_Witness ==
    /\ Len(received) = 2
    /\ Len(Written) = 2
    /\ Written[1].msg.Id = MessageRequest
    /\ received[1].msg.Request = Request(Uint32(1), <<65535, 65535>>, Uint32(16384))
    /\ Written[2].msg.Id = MessageHave
    /\ received[2].msg.PieceIndex = Uint32(16384)

\* the message is none of those SendMessage has a case for
Unimplemented(message) ==
    /\ ~message.KeepAlive
    /\ message.Id \notin {MessageChoke, MessageUnchoke, MessageInterested,
                          MessageNotInterested, MessageHave, MessageRequest}

\* C21: SendMessage of a message that is no keep-alive and whose ID it does
\* not implement (bitfield, piece, cancel, an ID above 8) returns an error
\* and writes no bytes to the connection.
C21_UnimplementedMessageIsAnError ==
    \A k \in 1..Len(outgoing) :
        Unimplemented(outgoing[k].msg) =>
            /\ outgoing[k].err = "error"
            /\ outgoing[k].wrote = <<>>

C21_Witness ==
    /\ conn.writable
    /\ Len(outgoing) = 2
    /\ outgoing[1].msg.Id = MessagePiece
    /\ outgoing[1].err = "error"
    /\ outgoing[2].msg.Id > MessageCancel
    /\ outgoing[2].err = "error"
    /\ conn.written = Reply(ProtocolLabel, HashA, PeerIdLocal)

(***************************************************************************)
(* Bit fields.  A byte is a number below 256; & and | work bit by bit.     *)
(***************************************************************************)
\* a & b
RECURSIVE BitAnd(_, _)
BitAnd(a, b) ==
    IF a = 0 \/ b = 0 THEN 0
    ELSE (a % 2) * (b % 2) + 2 * BitAnd(a \div 2, b \div 2)

\* a | b
RECURSIVE BitOr(_, _)
BitOr(a, b) ==
    IF a = 0 THEN b
    ELSE IF b = 0 THEN a
    ELSE (IF a % 2 = 1 \/ b % 2 = 1 THEN 1 ELSE 0) + 2 * BitOr(a \div 2, b \div 2)

\* 1 << n
ShiftLeft(n) == 2 ^ n

\* BitField.HasPiece(index) for index >= 0: [has, err].  In
\* pieceByte&(1<<7-offset) the shift binds tighter than the subtraction:
\* the mask is (1<<7) - offset.
HasPiece(bf, index) ==
    IF index >= bf.Length THEN [has |-> FALSE, err |-> "nil"]
    ELSE IF index \div 8 >= Len(bf.Field) THEN [has |-> FALSE, err |-> "panic"]
    ELSE LET pieceByte == bf.Field[index \div 8 + 1]
             offset == index % 8
         IN  [has |-> BitAnd(pieceByte, ShiftLeft(7) - offset) # 0, err |-> "nil"]

\* a mutant of SetPiece: without the check of the index against Length
SetPieceUnchecked(bf, index) ==
    IF index \div 8 >= Len(bf.Field) THEN [bf |-> bf, err |-> "panic"]
    ELSE LET offset == index % 8 IN
         [bf |-> [bf EXCEPT !.Field[index \div 8 + 1] = BitOr(@, ShiftLeft(7 - offset))],
          err |-> "nil"]

\* BitField.SetPiece(index) for index >= 0: [bf, err]
SetPiece(bf, index) ==
    IF index >= bf.Length THEN [bf |-> bf, err |-> "nil"]
    ELSE IF index \div 8 >= Len(bf.Field) THEN [bf |-> bf, err |-> "panic"]
    ELSE LET offset == index % 8 IN
         [bf |-> [bf EXCEPT !.Field[index \div 8 + 1] = BitOr(@, ShiftLeft(7 - offset))],
          err |-> "nil"]

(***************************************************************************)
(* Setting and testing pieces.  The bit field starts all zero, for a piece *)
(* count of 1 to MaxBits and with the bytes the count needs; up to MaxSets *)
(* calls of SetPiece are followed by one call of HasPiece.  The indices    *)
(* run past the piece count and past the storage.                          *)
(***************************************************************************)
MaxBits == 10

MaxSets == 2

\* the bytes a bit field of n pieces takes
FieldSize(n) == (n + 7) \div 8

IndexChoices == 0..(8 * FieldSize(MaxBits))

InitBitField ==
    /\ \E n \in 1..MaxBits :
            bitfield = [bf |-> BitField(Zeroes(FieldSize(n)), n), calls |-> <<>>,
                        err |-> "nil"]
    /\ probes = <<>>
    /\ CodecIdle
    /\ ScanIdle
    /\ TorrentIdle
    /\ TrackerIdle
    /\ WireIdle

\* bitfield.SetPiece(index)
SetPieceCall ==
    /\ bitfield # Unset
    /\ bitfield.err = "nil"
    /\ probes = <<>>
    /\ Len(bitfield.calls) < MaxSets
    /\ \E index \in IndexChoices :
            LET result == SetPiece(bitfield.bf, index) IN
            bitfield' = [bf |-> result.bf, calls |-> Append(bitfield.calls, index),
                         err |-> result.err]
    /\ UNCHANGED probes
    /\ UNCHANGED <<codecVars, scanVars, torrentVars, trackerVars, wireVars>>

\* bitfield.HasPiece(index)
HasPieceCall ==
    /\ bitfield # Unset
    /\ bitfield.err = "nil"
    /\ probes = <<>>
    /\ \E index \in IndexChoices :
            LET result == HasPiece(bitfield.bf, index) IN
            probes' = Append(probes, [index |-> index, has |-> result.has,
                                      err |-> result.err])
    /\ UNCHANGED bitfield
    /\ UNCHANGED <<codecVars, scanVars, torrentVars, trackerVars, wireVars>>

NextBitField == SetPieceCall \/ HasPieceCall

SpecBitField == InitBitField /\ [][NextBitField]_vars

(***************************************************************************)
(* Claims about bit fields                                                 *)
(***************************************************************************)
\* bit i of the bytes, the most significant bit of a byte first
BitAt(field, i) == (field[i \div 8 + 1] \div (2 ^ (7 - (i % 8)))) % 2

\* C22: bit i is stored most significant bit first in byte i/8 and HasPiece
\* reads the bit SetPiece writes: after SetPiece(j), 0 <= j < n, on an
\* all-zero bit field of n pieces, HasPiece(i) is true exactly when i = j,
\* for every i in [0, n).
C22_HasPieceReadsWhatSetPieceWrote ==
    (bitfield # Unset /\ Len(bitfield.calls) = 1 /\ bitfield.calls[1] < bitfield.bf.Length) =>
        /\ bitfield.err = "nil"
        /\ \A i \in 0..(8 * Len(bitfield.bf.Field) - 1) :
                BitAt(bitfield.bf.Field, i) = IF i = bitfield.calls[1] THEN 1 ELSE 0
        /\ \A k \in 1..Len(probes) :
                probes[k].index < bitfield.bf.Length =>
                    /\ probes[k].err = "nil"
                    /\ probes[k].has <=> probes[k].index = bitfield.calls[1]

\* C23: for every index i >= pieceCount, HasPiece(i) returns false without
\* reading the bytes and SetPiece(i) leaves every byte as it was; no
\* sequence of SetPiece calls sets a bit at an index >= pieceCount.
C23_IndexPastPieceCountIsInert ==
    bitfield # Unset =>
        /\ \A k \in 1..Len(probes) :
                probes[k].index >= bitfield.bf.Length =>
                    ~probes[k].has /\ probes[k].err = "nil"
        /\ (\A k \in 1..Len(bitfield.calls) : bitfield.calls[k] >= bitfield.bf.Length) =>
                /\ bitfield.err = "nil"
                /\ bitfield.bf.Field = Zeroes(Len(bitfield.bf.Field))
        /\ \A i \in 0..(8 * Len(bitfield.bf.Field) - 1) :
                i >= bitfield.bf.Length => BitAt(bitfield.bf.Field, i) = 0

\* SetPiece was called for a spare bit of the last byte and for an index
\* past the bytes, and then HasPiece for an index past the bytes
C23_Witness ==
    /\ bitfield # Unset
    /\ bitfield.bf.Length = MaxBits
    /\ Len(bitfield.calls) = 2
    /\ bitfield.calls[1] >= bitfield.bf.Length
    /\ bitfield.calls[1] < 8 * Len(bitfield.bf.Field)
    /\ bitfield.calls[2] >= 8 * Len(bitfield.bf.Field)
    /\ Len(probes) = 1
    /\ probes[1].index >= 8 * Len(bitfield.bf.Field)
    /\ ~probes[1].has

\* the whole frame at position p has fewer payload bytes than its ID needs
ShortPayloadAt(p) ==
    /\ WholeFrameAt(p)
    /\ LengthAt(p) > 0
    /\ LET id == conn.inbound[p + PrefixSize + 1]
           size == Len(PayloadAt(p))
       IN  \/ id = MessageHave /\ size < 4
           \/ id \in {MessageRequest, MessageCancel} /\ size < 12
           \/ id = MessagePiece /\ size < 8

\* C24: ReadMessage returns an error, and does not crash, when a frame that
\* was received whole has a payload shorter than its message ID requires: a
\* have with fewer than 4 payload bytes, a request or cancel with fewer than
\* 12, a piece with fewer than 8.
C24_ShortPayloadIsAnError ==
    client # Unset /\ client.via = "NewTCPClient"
        => \A k \in 1..Len(received) :
                ShortPayloadAt(received[k].from) => received[k].err = "error"

\* C25: every BitField that ReadMessage returns has bytes enough for its
\* piece count, 8 * len(Field) >= Length, so that HasPiece(i) and
\* SetPiece(i) are defined for every i in [0, Length), whatever bit field
\* the peer sent.
C25_ReceivedBitFieldHoldsItsPieces ==
    client # Unset /\ client.via = "NewTCPClient"
        => \A k \in 1..Len(received) :
                LET msg == received[k].msg IN
                (received[k].err = "nil" /\ ~msg.KeepAlive /\ msg.Id = MessageBitfield) =>
                    /\ 8 * Len(msg.BitField.Field) >= msg.BitField.Length
                    /\ \A i \in 0..(msg.BitField.Length - 1) :
                            /\ HasPiece(msg.BitField, i).err = "nil"
                            /\ SetPiece(msg.BitField, i).err = "nil"

\* C26: SendMessage returns a non-nil error whenever the write to the
\* connection fails, for every message type it can send (keep-alive, choke,
\* unchoke, interested, not-interested, have, request), and nil only if the
\* frame was written.
C26_WriteFailureIsReported ==
    \A k \in 1..Len(outgoing) :
        Sendable(outgoing[k].msg) =>
            /\ ~conn.writable => outgoing[k].err # "nil"
            /\ outgoing[k].err = "nil" => OneFrame(outgoing[k].wrote)

(***************************************************************************)
(* Claims about the connection of a failed handshake                       *)
(***************************************************************************)
\* the handshake failed after net.Dial had returned a connection
FailedAfterDial == client # Unset /\ client.err # "nil" /\ conn.dial = "ok"

\* C27: on every failure path of the handshake after the TCP connection was
\* dialed (write failure, short read, info-hash mismatch, peer-ID mismatch)
\* the dialed connection is closed before the error is returned; a failed
\* handshake leaves no open connection that the caller cannot reach.
C27_FailedHandshakeClosesConnection ==
    FailedAfterDial => ~conn.open

\* where the k-th frame of the stream after the handshake starts, every
\* frame before it being whole
RECURSIVE FrameStart(_)
FrameStart(k) ==
    IF k = 1 THEN Len(Reply(ProtocolLabel, HashA, PeerIdA))
    ELSE FrameStart(k - 1) + PrefixSize + LengthAt(FrameStart(k - 1))

\* the first k frames of the stream are well-formed
RECURSIVE WellFormedUpTo(_)
WellFormedUpTo(k) ==
    IF k = 0 THEN TRUE
    ELSE WellFormedUpTo(k - 1) /\ WellFormedFrameAt(FrameStart(k))

\* C28: each successful ReadMessage consumes exactly 4 + L bytes of the
\* connection, L being the declared length of the frame, also when the
\* payload has more bytes than the message type uses; for a stream that is
\* a concatenation of well-formed frames successive calls return the
\* messages of the frames, one per frame and in the order of the stream.
C28_ReadMessageConsumesOneFrame ==
    client # Unset /\ client.via = "NewTCPClient"
        => \A k \in 1..Len(received) :
                /\ received[k].err = "nil" =>
                        /\ WholeFrameAt(received[k].from)
                        /\ received[k].to
                                = received[k].from + PrefixSize + LengthAt(received[k].from)
                /\ WellFormedUpTo(k) =>
                        /\ received[k].err = "nil"
                        /\ received[k].from = FrameStart(k)
                        /\ DecodedByTable(received[k].msg, FrameStart(k))

\* a have with a byte more than the piece index was read, and after it the
\* request that follows it in the stream
C28_Witness ==
    /\ client # Unset
    /\ client.via = "NewTCPClient"
    /\ Len(received) = 2
    /\ received[1].err = "nil"
    /\ received[1].msg.Id = MessageHave
    /\ LengthAt(received[1].from) = 6
    /\ received[2].from = received[1].to
    /\ WellFormedFrameAt(received[2].from)
    /\ received[2].msg.Id = MessageRequest
    /\ received[2].msg.Request = Request(Uint32(1), <<65535, 65535>>, Uint32(16384))

(***************************************************************************)
(* Claims about whitespace and termination of the decoder                  *)
(***************************************************************************)
\* c from index i on, read as well-formed tokens with whitespace before,
\* between and after them: [ok, str, count], str being the tokens without
\* that whitespace and count their number
RECURSIVE TopLevelTokens(_, _, _, _)
TopLevelTokens(c, i, str, count) ==
    IF i >= Len(c) THEN [ok |-> TRUE, str |-> str, count |-> count]
    ELSE IF IsSpace(c[i + 1]) THEN TopLevelTokens(c, i + 1, str, count)
    ELSE LET k == WfTokenEnd(c, i) IN
         IF k = -1 THEN [ok |-> FALSE, str |-> <<>>, count |-> 0]
         ELSE TopLevelTokens(c, k, str \o SubSeq(c, i + 1, k), count + 1)

\* C30: whitespace around top-level tokens does not change the result: for
\* well-formed s, DecodeBencode of s with whitespace added before the first
\* token, between top-level tokens or after the last one succeeds and
\* returns the tokens DecodeBencode(s) returns.
C30_TopLevelWhitespaceIgnored ==
    LET parts == TopLevelTokens(contents, 0, <<>>, 0) IN
    (decoded # Unset /\ parts.ok /\ parts.count >= 1) =>
        /\ decoded.err = "nil"
        /\ decoded.tokens = DecodeBencode(parts.str).tokens

(***************************************************************************)
(* DecodeBencode step by step.  The call is followed from one loop head to *)
(* the next: `scan` is its Scanner and `stack` its loops in progress, the  *)
(* loop of DecodeBencode first and the loops of the lists and dictionaries *)
(* being parsed after it.  A loop is [loop, acc, key, phase, start]: which *)
(* loop it is, the tokens or pairs it has, the key of a dictionary whose   *)
(* value is being parsed, whether it is at its head or calling             *)
(* ParseBencodeToken, and the scanner index its current iteration began    *)
(* at (-1 before the first).  Strings and integers are parsed in one step. *)
(***************************************************************************)
LoopFrame(loop, acc) ==
    [loop |-> loop, acc |-> acc, key |-> Nil, phase |-> "head", start |-> -1]

\* the call goes on
Running(s, loops) == [scan |-> s, stack |-> loops, decoded |-> Unset]

\* DecodeBencode returns
Returned(tokens, err, s) ==
    [scan |-> s, stack |-> <<>>,
     decoded |-> [tokens |-> tokens, err |-> err, scanner |-> s]]

Innermost(loops) == loops[Len(loops)]

Outer(loops) == SubSeq(loops, 1, Len(loops) - 1)

\* ParseBencodeToken returns val to the loop that called it
Deliver(loops, s, val) ==
    LET f == Innermost(loops) IN
    IF f.phase = "token"
    THEN Running(s, Append(Outer(loops),
                           [f EXCEPT !.acc = Append(f.acc, val), !.phase = "head"]))
    ELSE IF f.phase = "key"
    THEN Running(s, Append(Outer(loops), [f EXCEPT !.key = val, !.phase = "value"]))
    ELSE IF f.key.t # "str" THEN Returned(<<>>, "panic", s)
    ELSE Running(s, Append(Outer(loops),
                           [f EXCEPT !.acc = MapSet(f.acc, f.key.v, val),
                                     !.key = Nil, !.phase = "head"]))

\* the innermost loop at its head: the loop condition and the body up to
\* the call of ParseBencodeToken
LoopHead(loops, s) ==
    LET f == Innermost(loops)
        s1 == AdvanceWhitespace(s)
        p == Peek(s1, 1)
        done == IF f.loop = "list" THEN ListTok(f.acc) ELSE DictTok(f.acc)
        called == IF f.loop = "dict" THEN "key" ELSE "token"
        entered == Append(Outer(loops),
                          [f EXCEPT !.phase = called, !.start = s.CurrentIndex])
    IN  IF f.loop = "top"
        THEN IF Ended(s) THEN Returned(f.acc, "nil", s)
             ELSE Running(s1, entered)
        ELSE IF Ended(s) THEN Deliver(Outer(loops), s, done)
        ELSE IF p.err # "nil" THEN Returned(<<>>, p.err, s1)
        ELSE IF p.str[1] = ChE THEN Deliver(Outer(loops), Advance(s1, 1), done)
        ELSE Running(s1, entered)

\* a mutant of TokenStep: ParseBencodeList and ParseBencodeDictionary do not
\* advance past the 'l' and the 'd'
TokenStepOpenerKept(loops, s) ==
    LET f == Innermost(loops)
        s0 == IF f.phase = "value" THEN AdvanceWhitespace(s) ELSE s
        p == Peek(s0, 1)
        leaf == IF IsDigit(p.str[1]) THEN ParseBencodeString(s0)
                ELSE ParseBencodeInteger(s0)
    IN  IF p.err = "EOF" THEN Returned(<<>>, "EOF", s0)
        ELSE IF IsDigit(p.str[1]) \/ p.str[1] = ChI
        THEN IF leaf.err # "nil" THEN Returned(<<>>, leaf.err, leaf.scanner)
             ELSE Deliver(loops, leaf.scanner, leaf.val)
        ELSE IF p.str[1] = ChL
        THEN Running(s0, Append(loops, LoopFrame("list", <<>>)))
        ELSE IF p.str[1] = ChD
        THEN Running(s0, Append(loops, LoopFrame("dict", <<>>)))
        ELSE Returned(<<>>, "error", s0)

\* the call of ParseBencodeToken the innermost loop makes, up to its return
\* or to the head of the loop of the list or dictionary it finds
TokenStep(loops, s) ==
    LET f == Innermost(loops)
        s0 == IF f.phase = "value" THEN AdvanceWhitespace(s) ELSE s
        p == Peek(s0, 1)
        leaf == IF IsDigit(p.str[1]) THEN ParseBencodeString(s0)
                ELSE ParseBencodeInteger(s0)
    IN  IF p.err = "EOF" THEN Returned(<<>>, "EOF", s0)
        ELSE IF IsDigit(p.str[1]) \/ p.str[1] = ChI
        THEN IF leaf.err # "nil" THEN Returned(<<>>, leaf.err, leaf.scanner)
             ELSE Deliver(loops, leaf.scanner, leaf.val)
        ELSE IF p.str[1] = ChL
        THEN Running(Advance(s0, 1), Append(loops, LoopFrame("list", <<>>)))
        ELSE IF p.str[1] = ChD
        THEN Running(Advance(s0, 1), Append(loops, LoopFrame("dict", <<>>)))
        ELSE Returned(<<>>, "error", s0)

\* the inputs of the calls that are followed step by step: every string of
\* at most MaxLen characters of Alphabet other than '-'
ScanInputs == UNION {[1..k -> Alphabet \ {ChMinus}] : k \in 0..MaxLen}

InitScan ==
    /\ contents \in ScanInputs
    /\ decoded = Unset
    /\ goValue = Nil
    /\ encoded = Unset
    /\ redecoded = Unset
    /\ ScanIdle
    /\ TorrentIdle
    /\ PeerIdle

\* DecodeBencode(contents) is called
DecodeBencodeCall ==
    /\ scan = Unset
    /\ scan' = Scanner(contents, 0)
    /\ stack' = <<LoopFrame("top", <<>>)>>
    /\ steps' = steps + 1
    /\ UNCHANGED codecVars
    /\ UNCHANGED <<torrentVars, peerVars>>

\* one pass through the head of the innermost loop
LoopIteration ==
    /\ stack # <<>>
    /\ Innermost(stack).phase = "head"
    /\ LET next == LoopHead(stack, scan) IN
       /\ scan' = next.scan
       /\ stack' = next.stack
       /\ decoded' = next.decoded
    /\ steps' = steps + 1
    /\ UNCHANGED <<contents, goValue, encoded, redecoded>>
    /\ UNCHANGED <<torrentVars, peerVars>>

\* the call of ParseBencodeToken in the body of the innermost loop
ParseBencodeTokenCall ==
    /\ stack # <<>>
    /\ Innermost(stack).phase # "head"
    /\ LET next == TokenStep(stack, scan) IN
       /\ scan' = next.scan
       /\ stack' = next.stack
       /\ decoded' = next.decoded
    /\ steps' = steps + 1
    /\ UNCHANGED <<contents, goValue, encoded, redecoded>>
    /\ UNCHANGED <<torrentVars, peerVars>>

NextScan == DecodeBencodeCall \/ LoopIteration \/ ParseBencodeTokenCall

SpecScan == InitScan /\ [][NextScan]_vars

\* the steps end with what DecodeBencode returns
StepsAgreeWithDecodeBencode ==
    decoded # Unset =>
        /\ decoded.err = DecodeBencode(contents).err
        /\ decoded.tokens = DecodeBencode(contents).tokens
        /\ decoded.scanner = DecodeBencode(contents).scanner

\* the scanner index is within the input, and a loop that is back at its
\* head has moved the index since the iteration began
ScanProgress ==
    scan # Unset =>
        /\ scan.CurrentIndex <= Len(contents)
        /\ (stack # <<>> /\ Innermost(stack).phase = "head")
                => Innermost(stack).start < scan.CurrentIndex

\* the steps a call takes on input c at most
StepLimit(c) == 3 * Len(c) + 3

\* C29: DecodeBencode terminates on every finite input, well-formed or not:
\* every iteration of the top-level, list and dictionary loops advances the
\* scanner index by at least one character or returns, and the scanner index
\* never exceeds the input length.
C29_DecodeBencodeTerminates ==
    /\ ScanProgress
    /\ steps <= StepLimit(contents)
    /\ (scan # Unset /\ decoded = Unset) => stack # <<>>

\* the loop of DecodeBencode has a token and is in its next iteration, in
\* which the loop of a list is back at its head with an item
C29_Witness ==
    /\ Len(stack) = 2
    /\ stack[1].acc # <<>>
    /\ stack[1].start > 0
    /\ stack[2].loop = "list"
    /\ stack[2].phase = "head"
    /\ stack[2].acc # <<>>
    /\ stack[2].start > stack[1].start
    /\ scan.CurrentIndex > stack[2].start

====
